---- MODULE Spec2Model ----
(***************************************************************************)
(* Model of the habit-homepage backend: the Entry Store (SQLite table      *)
(* habit_entries), the Recording Orchestrator (DailyLogService) and the    *)
(* Analytics Engine (AnalyticsService).                                    *)
(*                                                                         *)
(* A date is the number of days since January 1st of EpochYear; the Entry  *)
(* Store keeps dates as ISO-8601 text, modelled as the triple <<y, m, d>>  *)
(* (the zero-padded text compares as the triple compares).  Values are     *)
(* small naturals; a quotient of two floats is kept as a fraction.         *)
(***************************************************************************)
EXTENDS Integers, Sequences, FiniteSets, TLC

----------------------------------------------------------------------------
(* Bounds of the model *)

MaxDay == 1
MaxValue == 2
MaxClock == 2
MaxSpan == 2
MaxRun == 2

(* Calendar anchoring: day 0 is EpochYear-01-01, the requests of the model *)
(* are dated from FirstDay on (2024-01-01, a Monday).                      *)
EpochYear == 2022
FirstDay == 730
LastDay == 1460

Dates == FirstDay .. (FirstDay + MaxDay)
Span == FirstDay .. (FirstDay + MaxSpan)
Values == 0 .. MaxValue

----------------------------------------------------------------------------
(* Python's date: isoformat / fromisoformat / timedelta arithmetic *)

IsLeap(y) == (y % 4 = 0 /\ y % 100 # 0) \/ (y % 400 = 0)

DaysInMonth(y, m) ==
    IF m = 2 THEN (IF IsLeap(y) THEN 29 ELSE 28)
    ELSE IF m \in {4, 6, 9, 11} THEN 30 ELSE 31

RECURSIVE ymd_walk(_, _, _)
ymd_walk(y, m, n) ==
    IF n < DaysInMonth(y, m) THEN <<y, m, n + 1>>
    ELSE IF m = 12 THEN ymd_walk(y + 1, 1, n - DaysInMonth(y, m))
    ELSE ymd_walk(y, m + 1, n - DaysInMonth(y, m))

(* date.isoformat(): the text YYYY-MM-DD of a date, tabulated over the     *)
(* days 0..LastDay the model handles                                       *)
IsoTable == [d \in 0..LastDay |-> ymd_walk(EpochYear, 1, d)]

isoformat(d) == IsoTable[d]

RECURSIVE days_before(_, _)
days_before(y, m) ==
    IF y = EpochYear /\ m = 1 THEN 0
    ELSE IF m = 1 THEN days_before(y - 1, 12) + DaysInMonth(y - 1, 12)
    ELSE days_before(y, m - 1) + DaysInMonth(y, m - 1)

DaysBeforeTable ==
    [y \in EpochYear..(EpochYear + 4), m \in 1..12 |-> days_before(y, m)]

(* date.fromisoformat(): the date of a text YYYY-MM-DD *)
fromisoformat(s) == DaysBeforeTable[s[1], s[2]] + (s[3] - 1)

(* SQL comparison of two TEXT dates: a <= b *)
IsoLE(a, b) ==
    \/ a[1] < b[1]
    \/ a[1] = b[1] /\ a[2] < b[2]
    \/ a[1] = b[1] /\ a[2] = b[2] /\ a[3] <= b[3]

----------------------------------------------------------------------------
(* Habit Catalog: the fixed definition list *)

NoConfig == [k \in {} |-> ""]

ProviderConfig(provider, metric) ==
    [k \in {"provider", "metric"} |-> IF k = "provider" THEN provider ELSE metric]

HabitDefinitions == <<
    [id |-> "steps", source |-> "automatic",
     provider_config |-> ProviderConfig("garmin", "steps")],
    [id |-> "heart_rate", source |-> "automatic",
     provider_config |-> ProviderConfig("garmin", "heart_rate")],
    [id |-> "exercise", source |-> "automatic",
     provider_config |-> ProviderConfig("garmin", "exercise")],
    [id |-> "reading", source |-> "manual", provider_config |-> NoConfig],
    [id |-> "goodreads_books", source |-> "automatic",
     provider_config |-> ProviderConfig("goodreads", "books_read")],
    [id |-> "meditation", source |-> "manual", provider_config |-> NoConfig],
    [id |-> "deep_work", source |-> "manual", provider_config |-> NoConfig],
    [id |-> "github_contributions", source |-> "automatic",
     provider_config |-> ProviderConfig("github", "contributions")] >>

CatalogIds == {HabitDefinitions[i].id : i \in 1..Len(HabitDefinitions)}

(* habit_repo.get_by_id: the set holding the habit, or {} standing for None *)
habit_get_by_id(habit_id) ==
    {HabitDefinitions[i] : i \in {j \in 1..Len(HabitDefinitions) :
                                     HabitDefinitions[j].id = habit_id}}

(* habit_repo.get_all *)
habit_get_all == HabitDefinitions

is_automatic(habit) == habit.source = "automatic"

(* Habit ids the requests of the model carry *)
HabitInputs == {"steps", "reading", "nonexistent"}

----------------------------------------------------------------------------
(* Entry Store: table habit_entries, one row per stored entry;             *)
(* Goal Store: table goals, one row per stored goal                        *)

VARIABLES store, clock, data_providers, last, goals, running

vars == <<store, clock, data_providers, last, goals, running>>

(* The request handlers run in the worker threads of the server: running   *)
(* gives for each worker the call of record_habit or sync_automatic_habits *)
(* it is in, between loading the log and saving it, or that it is idle.    *)
Workers == {"w1", "w2"}

Idle == [pc |-> "idle"]

NoRequest == [w \in Workers |-> Idle]

Key(row) == <<row.date, row.habit_id>>

(* Row written for an entry: dates go in as ISO text *)
entry_to_row(entry) ==
    [date |-> isoformat(entry.date), habit_id |-> entry.habit_id,
     value |-> entry.value, recorded_at |-> entry.recorded_at,
     source |-> entry.source]

row_to_entry(row) ==
    [date |-> fromisoformat(row.date), habit_id |-> row.habit_id,
     value |-> row.value, recorded_at |-> row.recorded_at,
     source |-> row.source]

(* INSERT of one row with no ON CONFLICT clause taking effect *)
upsert_insert_only(rows, row) == rows \cup {row}

(* INSERT ... ON CONFLICT(date, habit_id) DO UPDATE of one row *)
upsert(rows, row) == {r \in rows : Key(r) # Key(row)} \cup {row}

(* dict.setdefault(habit_id, entry): an entry already there stays *)
entries_put_setdefault(entries, entry) ==
    IF \E e \in entries : e.habit_id = entry.habit_id THEN entries
    ELSE entries \cup {entry}

(* DailyLog.entries[habit_id] = entry; the dict is kept as the set of its values *)
entries_put(entries, entry) ==
    {e \in entries : e.habit_id # entry.habit_id} \cup {entry}

RECURSIVE upsert_all(_, _)
upsert_all(rows, entries) ==
    IF entries = {} THEN rows
    ELSE LET e == CHOOSE x \in entries : TRUE
         IN upsert_all(upsert(rows, entry_to_row(e)), entries \ {e})

(* A save that writes nothing *)
save_nothing(rows, log) == rows

(* SQLiteDailyLogRepository.save *)
save(rows, log) == upsert_all(rows, log.entries)

RECURSIVE build_entries(_, _)
build_entries(rows, acc) ==
    IF rows = {} THEN acc
    ELSE LET r == CHOOSE x \in rows : TRUE
         IN build_entries(rows \ {r}, entries_put(acc, row_to_entry(r)))

(* SQLiteDailyLogRepository.get_by_date: the set holding the log, or {} for None *)
get_by_date(rows, target_date) ==
    LET date_str == isoformat(target_date)
        found == {r \in rows : r.date = date_str}
    IN IF found = {} THEN {}
       ELSE {[date |-> target_date, entries |-> build_entries(found, {})]}

(* DailyLogService.get_or_create *)
get_or_create(rows, target_date) ==
    LET log == get_by_date(rows, target_date)
    IN IF log # {} THEN CHOOSE l \in log : TRUE
       ELSE [date |-> target_date, entries |-> {}]

RECURSIVE order_by_date(_)
order_by_date(rows) ==
    IF rows = {} THEN <<>>
    ELSE LET r == CHOOSE x \in rows : \A y \in rows : IsoLE(x.date, y.date)
         IN <<r>> \o order_by_date(rows \ {r})

(* The query with date < ? for its upper end *)
get_entries_by_habit_open_end(rows, habit_id, start, end) ==
    LET lo == isoformat(start)
        hi == isoformat(end)
        found == order_by_date({r \in rows : /\ r.habit_id = habit_id
                                             /\ IsoLE(lo, r.date)
                                             /\ IsoLE(r.date, hi)
                                             /\ r.date # hi})
    IN [i \in 1..Len(found) |-> row_to_entry(found[i])]

(* SQLiteDailyLogRepository.get_entries_by_habit *)
get_entries_by_habit(rows, habit_id, start, end) ==
    LET lo == isoformat(start)
        hi == isoformat(end)
        found == order_by_date({r \in rows : /\ r.habit_id = habit_id
                                             /\ IsoLE(lo, r.date)
                                             /\ IsoLE(r.date, hi)})
    IN [i \in 1..Len(found) |-> row_to_entry(found[i])]

RECURSIVE group_by_date(_, _)
group_by_date(ordered, logs) ==
    IF ordered = <<>> THEN logs
    ELSE LET entry == row_to_entry(Head(ordered))
             n == Len(logs)
         IN IF n > 0 /\ logs[n].date = entry.date
            THEN group_by_date(Tail(ordered),
                     [logs EXCEPT ![n].entries = entries_put(@, entry)])
            ELSE group_by_date(Tail(ordered),
                     Append(logs, [date |-> entry.date, entries |-> {entry}]))

(* SQLiteDailyLogRepository.get_by_date_range: logs grouped by date, in date order *)
get_by_date_range(rows, start, end) ==
    LET lo == isoformat(start)
        hi == isoformat(end)
        found == order_by_date({r \in rows : IsoLE(lo, r.date) /\ IsoLE(r.date, hi)})
    IN group_by_date(found, <<>>)

----------------------------------------------------------------------------
(* DailyLog *)

(* add_or_update_entry without the check of the entry's date *)
add_or_update_entry_unchecked(log, entry) ==
    [raised |-> "none", log |-> [log EXCEPT !.entries = entries_put(@, entry)]]

(* DailyLog.add_or_update_entry: the error raised, if any, and the log afterwards *)
add_or_update_entry(log, entry) ==
    IF entry.date # log.date
    THEN [raised |-> "ValueError", log |-> log]
    ELSE [raised |-> "none", log |-> [log EXCEPT !.entries = entries_put(@, entry)]]

----------------------------------------------------------------------------
(* What the last operation was called with and how it ended:               *)
(* raised is the exception class that left the handler ("none" if it       *)
(* returned), ret the returned value, log_reads / log_saves the number of  *)
(* calls it made to the Entry Store, loaded the entries of the log a       *)
(* write loaded before changing it, goal the goal id and the arguments of  *)
(* a call of the Goal Manager with the goal it found stored.               *)

Outcome(op, habit_id, d1, d2, value, raised, ret, reads, saves) ==
    [op |-> op, habit_id |-> habit_id, date |-> d1, end |-> d2, value |-> value,
     raised |-> raised, ret |-> ret, log_reads |-> reads, log_saves |-> saves,
     loaded |-> {}, goal |-> [id |-> "", args |-> <<>>, found |-> {}]]

Init ==
    /\ store = {}
    /\ clock = 0
    /\ data_providers \in {<<>>, <<"garmin">>, <<"github">>, <<"garmin", "github">>}
    /\ last = Outcome("init", "", 0, 0, 0, "none", 0, 0, 0)
    /\ goals = {}
    /\ running = NoRequest

----------------------------------------------------------------------------
(* Recording Orchestrator *)

(* DailyLogService.record_habit on the Entry Store `rows` at clock `now`:  *)
(* the error raised, the store and the clock afterwards, the log returned, *)
(* the number of Entry Store reads and saves                               *)
(* record_habit without the lookup of the habit in the catalog *)
record_habit_unchecked(rows, now, target_date, habit_id, value) ==
    LET log == get_or_create(rows, target_date)
        entry == [habit_id |-> habit_id, date |-> target_date,
                  value |-> value, recorded_at |-> now,
                  source |-> "manual"]
        added == add_or_update_entry(log, entry)
    IN IF added.raised # "none"
       THEN [raised |-> added.raised, store |-> rows, now |-> now + 1, ret |-> 0,
             reads |-> 1, saves |-> 0, loaded |-> log.entries]
       ELSE [raised |-> "none", store |-> save(rows, added.log), now |-> now + 1,
             ret |-> added.log, reads |-> 1, saves |-> 1, loaded |-> log.entries]

record_habit(rows, now, target_date, habit_id, value) ==
    IF habit_get_by_id(habit_id) = {}
    THEN [raised |-> "ValueError", store |-> rows, now |-> now, ret |-> 0,
          reads |-> 0, saves |-> 0, loaded |-> {}]
    ELSE LET log == get_or_create(rows, target_date)
             entry == [habit_id |-> habit_id, date |-> target_date,
                       value |-> value, recorded_at |-> now,
                       source |-> "manual"]
             added == add_or_update_entry(log, entry)
         IN IF added.raised # "none"
            THEN [raised |-> added.raised, store |-> rows, now |-> now + 1, ret |-> 0,
                  reads |-> 1, saves |-> 0, loaded |-> log.entries]
            ELSE [raised |-> "none", store |-> save(rows, added.log), now |-> now + 1,
                  ret |-> added.log, reads |-> 1, saves |-> 1, loaded |-> log.entries]

RecordHabit(target_date, habit_id, value) ==
    LET done == record_habit(store, clock, target_date, habit_id, value)
    IN /\ done.now <= MaxClock
       /\ store' = done.store
       /\ clock' = done.now
       /\ last' = [Outcome("record_habit", habit_id, target_date, target_date, value,
                           done.raised, done.ret, done.reads, done.saves)
                       EXCEPT !.loaded = done.loaded]
       /\ UNCHANGED <<data_providers, goals, running>>

(* _find_provider taking the first registered provider whatever its name *)
find_provider_any(habit, providers) ==
    IF DOMAIN habit.provider_config = {} THEN {}
    ELSE IF "provider" \notin DOMAIN habit.provider_config THEN {}
    ELSE IF providers = <<>> THEN {} ELSE {1}

(* DailyLogService._find_provider: the positions of the provider found, {} for None *)
find_provider(habit, providers) ==
    IF DOMAIN habit.provider_config = {} THEN {}
    ELSE IF "provider" \notin DOMAIN habit.provider_config THEN {}
    ELSE LET target_provider == habit.provider_config["provider"]
             matching == {i \in 1..Len(providers) : providers[i] = target_provider}
         IN IF matching = {} THEN {}
            ELSE {CHOOSE i \in matching : \A j \in matching : i <= j}

(* The automatic habits of the catalog, in catalog order *)
automatic_habits == SelectSeq(habit_get_all, is_automatic)

(* The habits a sync asks a provider about *)
FetchedHabits(providers) ==
    {automatic_habits[i].id : i \in {j \in 1..Len(automatic_habits) :
                                 find_provider(automatic_habits[j], providers) # {}}}

(* What provider.fetch_data can do: return a value, return None, or raise *)
FetchOutcomes ==
    {[kind |-> "value", value |-> v] : v \in {MaxValue}}
        \cup {[kind |-> "none", value |-> 0], [kind |-> "raise", value |-> 0]}

(* The loop of sync_automatic_habits from habit i on: the error that left  *)
(* the loop, if any, the log and the clock afterwards                      *)
RECURSIVE sync_loop(_, _, _, _, _, _)
sync_loop(habits, i, log, now, fetch, providers) ==
    IF i > Len(habits) THEN [raised |-> "none", log |-> log, now |-> now]
    ELSE LET habit == habits[i]
             provider == find_provider(habit, providers)
         IN IF provider = {} THEN sync_loop(habits, i + 1, log, now, fetch, providers)
            ELSE LET fetched == fetch[habit.id]
                 IN IF fetched.kind = "raise"
                    THEN [raised |-> "ProviderError", log |-> log, now |-> now]
                    ELSE IF fetched.kind = "none"
                    THEN sync_loop(habits, i + 1, log, now, fetch, providers)
                    ELSE LET entry == [habit_id |-> habit.id, date |-> log.date,
                                       value |-> fetched.value, recorded_at |-> now,
                                       source |-> "automatic"]
                             added == add_or_update_entry(log, entry)
                         IN IF added.raised # "none"
                            THEN [raised |-> added.raised, log |-> log, now |-> now + 1]
                            ELSE sync_loop(habits, i + 1, added.log, now + 1,
                                           fetch, providers)

(* DailyLogService.sync_automatic_habits *)
SyncAutomaticHabits(target_date, fetch) ==
    LET log == get_or_create(store, target_date)
        done == sync_loop(automatic_habits, 1, log, clock, fetch, data_providers)
    IN /\ done.now <= MaxClock
       /\ clock' = done.now
       /\ IF done.raised # "none"
          THEN /\ store' = store
               /\ last' = [Outcome("sync_automatic_habits", "", target_date, target_date,
                                   0, done.raised, 0, 1, 0)
                               EXCEPT !.loaded = log.entries]
          ELSE /\ store' = save(store, done.log)
               /\ last' = [Outcome("sync_automatic_habits", "", target_date, target_date,
                                   0, "none", done.log, 1, 1)
                               EXCEPT !.loaded = log.entries]
       /\ UNCHANGED <<data_providers, goals, running>>

(* DailyLogService.get_by_date_range *)
GetByDateRange(start, end) ==
    /\ last' = Outcome("get_by_date_range", "", start, end, 0, "none",
                       get_by_date_range(store, start, end), 1, 0)
    /\ UNCHANGED <<store, clock, data_providers, goals, running>>

----------------------------------------------------------------------------
(* Analytics Engine.  Each operation is a function of the Entry Store      *)
(* giving the error raised ("none" if it returned), the value returned and *)
(* the number of Entry Store reads it made.                                *)

Raised(kind, reads) == [raised |-> kind, ret |-> 0, reads |-> reads]
Returned(ret, reads) == [raised |-> "none", ret |-> ret, reads |-> reads]

RECURSIVE SumSeq(_)
SumSeq(s) == IF s = <<>> THEN 0 ELSE Head(s) + SumSeq(Tail(s))

(* values[0] taken for min(values) *)
MinSeq_first(s) == s[1]

MinSeq(s) == CHOOSE x \in {s[i] : i \in 1..Len(s)} : \A i \in 1..Len(s) : x <= s[i]
MaxSeq(s) == CHOOSE x \in {s[i] : i \in 1..Len(s)} : \A i \in 1..Len(s) : x >= s[i]

(* a / b of two floats, kept as the fraction *)
Div(a, b) == [num |-> a, den |-> b]

(* AnalyticsService.get_habit_statistics *)
get_habit_statistics(rows, habit_id, start_date, end_date) ==
    IF habit_get_by_id(habit_id) = {} THEN Raised("ValueError", 0)
    ELSE LET entries == get_entries_by_habit(rows, habit_id, start_date, end_date)
             values == [i \in 1..Len(entries) |-> entries[i].value]
         IN IF entries = <<>>
            THEN Returned([min |-> 0, max |-> 0, average |-> Div(0, 1), total |-> 0,
                           count |-> 0, days_logged |-> 0,
                           days_in_range |-> (end_date - start_date) + 1], 1)
            ELSE Returned([min |-> MinSeq(values), max |-> MaxSeq(values),
                           average |-> Div(SumSeq(values), Len(values)),
                           total |-> SumSeq(values),
                           count |-> Len(entries), days_logged |-> Len(entries),
                           days_in_range |-> (end_date - start_date) + 1], 1)

(* for _ in range(366) *)
StreakLookback_one_more == 365 + 1

(* for _ in range(365) *)
StreakLookback == 365

(* The loop of get_current_streak: it leaves at the first of its           *)
(* StreakLookback iterations that finds no entry for check_date =          *)
(* as_of_date - k, and streak counts the iterations before that one.       *)
(* (The loop is given by its exit point: 365 nested calls are more than    *)
(* the evaluator's stack takes.)                                           *)
streak_loop(rows, habit_id, as_of_date) ==
    LET logged == {k \in 0..(StreakLookback - 1) :
                       get_entries_by_habit(rows, habit_id, as_of_date - k,
                                            as_of_date - k) # <<>>}
        streak == CHOOSE k \in 0..StreakLookback :
                      /\ \A j \in 0..(k - 1) : j \in logged
                      /\ (k = StreakLookback \/ k \notin logged)
    IN [streak |-> streak,
        reads |-> IF streak = StreakLookback THEN streak ELSE streak + 1]

(* AnalyticsService.get_current_streak *)
get_current_streak(rows, habit_id, as_of_date) ==
    IF habit_get_by_id(habit_id) = {} THEN Raised("ValueError", 0)
    ELSE LET done == streak_loop(rows, habit_id, as_of_date)
         IN Returned(done.streak, done.reads)

(* Python's None where a date or a text is expected *)
None == <<>>

(* The loop replacing the maximum when current_streak >= max_streak *)
RECURSIVE longest_loop_last_wins(_, _, _, _)
longest_loop_last_wins(logged_dates, check_date, end_date, st) ==
    IF ~(check_date <= end_date) THEN st
    ELSE IF check_date \in logged_dates
    THEN LET current_start == IF st.current_streak = 0 THEN <<check_date>>
                              ELSE st.current_start
             current_streak == st.current_streak + 1
         IN IF current_streak >= st.max_streak
            THEN longest_loop_last_wins(logged_dates, check_date + 1, end_date,
                     [max_streak |-> current_streak, max_start |-> current_start,
                      max_end |-> <<check_date>>, current_streak |-> current_streak,
                      current_start |-> current_start])
            ELSE longest_loop_last_wins(logged_dates, check_date + 1, end_date,
                     [st EXCEPT !.current_streak = current_streak,
                                !.current_start = current_start])
    ELSE longest_loop_last_wins(logged_dates, check_date + 1, end_date,
             [st EXCEPT !.current_streak = 0, !.current_start = None])

(* The while loop of get_longest_streak from check_date on; st carries     *)
(* max_streak, max_start, max_end, current_streak, current_start           *)
RECURSIVE longest_loop(_, _, _, _)
longest_loop(logged_dates, check_date, end_date, st) ==
    IF ~(check_date <= end_date) THEN st
    ELSE IF check_date \in logged_dates
    THEN LET current_start == IF st.current_streak = 0 THEN <<check_date>>
                              ELSE st.current_start
             current_streak == st.current_streak + 1
         IN IF current_streak > st.max_streak
            THEN longest_loop(logged_dates, check_date + 1, end_date,
                     [max_streak |-> current_streak, max_start |-> current_start,
                      max_end |-> <<check_date>>, current_streak |-> current_streak,
                      current_start |-> current_start])
            ELSE longest_loop(logged_dates, check_date + 1, end_date,
                     [st EXCEPT !.current_streak = current_streak,
                                !.current_start = current_start])
    ELSE longest_loop(logged_dates, check_date + 1, end_date,
             [st EXCEPT !.current_streak = 0, !.current_start = None])

(* x.isoformat() if x else None, for an optional date kept as <<>> or <<d>> *)
isoformat_opt(x) == IF x = None THEN None ELSE isoformat(x[1])

(* AnalyticsService.get_longest_streak *)
get_longest_streak(rows, habit_id, start_date, end_date) ==
    IF habit_get_by_id(habit_id) = {} THEN Raised("ValueError", 0)
    ELSE LET entries == get_entries_by_habit(rows, habit_id, start_date, end_date)
         IN IF entries = <<>>
            THEN Returned([length |-> 0, start_date |-> None, end_date |-> None], 1)
            ELSE LET logged_dates == {entries[i].date : i \in 1..Len(entries)}
                     st == longest_loop(logged_dates, start_date, end_date,
                               [max_streak |-> 0, max_start |-> None, max_end |-> None,
                                current_streak |-> 0, current_start |-> None])
                 IN Returned([length |-> st.max_streak,
                              start_date |-> isoformat_opt(st.max_start),
                              end_date |-> isoformat_opt(st.max_end)], 1)

(* entry_map.get(d, 0.0) for entry_map = {e.date: e.value for e in entries} *)
entry_map_get(entries, d) ==
    LET at == {i \in 1..Len(entries) : entries[i].date = d}
    IN IF at = {} THEN 0
       ELSE entries[CHOOSE i \in at : \A j \in at : j <= i].value

(* The loop with while check_date < end_date *)
RECURSIVE fill_days_before_end(_, _, _)
fill_days_before_end(entries, check_date, end_date) ==
    IF ~(check_date < end_date) THEN <<>>
    ELSE <<[date |-> isoformat(check_date), value |-> entry_map_get(entries, check_date)]>>
             \o fill_days_before_end(entries, check_date + 1, end_date)

(* The while loop filling one point per day from check_date to end_date *)
RECURSIVE fill_days(_, _, _)
fill_days(entries, check_date, end_date) ==
    IF ~(check_date <= end_date) THEN <<>>
    ELSE <<[date |-> isoformat(check_date), value |-> entry_map_get(entries, check_date)]>>
             \o fill_days(entries, check_date + 1, end_date)

(* AnalyticsService.get_calendar_data *)
get_calendar_data(rows, habit_id, year, month) ==
    IF habit_get_by_id(habit_id) = {} THEN Raised("ValueError", 0)
    ELSE IF month \notin 1..12 THEN Raised("ValueError", 0)
    ELSE LET start_date == fromisoformat(<<year, month, 1>>)
             end_date == IF month = 12 THEN fromisoformat(<<year, 12, 31>>)
                         ELSE fromisoformat(<<year, month + 1, 1>>) - 1
             entries == get_entries_by_habit(rows, habit_id, start_date, end_date)
         IN Returned(fill_days(entries, start_date, end_date), 1)

(* AnalyticsService.get_habit_trend *)
get_habit_trend(rows, habit_id, start_date, end_date) ==
    IF habit_get_by_id(habit_id) = {} THEN Raised("ValueError", 0)
    ELSE LET entries == get_entries_by_habit(rows, habit_id, start_date, end_date)
         IN Returned(fill_days(entries, start_date, end_date), 1)

(* round(n / d, 0) for n >= 0, d > 0: Python rounds halves to even *)
RoundDiv(n, d) ==
    LET q == n \div d
        r == n % d
    IN IF 2 * r < d THEN q
       ELSE IF 2 * r > d THEN q + 1
       ELSE IF q % 2 = 0 THEN q ELSE q + 1

(* get_completion_rate counting e.value >= threshold *)
get_completion_rate_at_least(rows, habit_id, start_date, end_date, threshold) ==
    IF habit_get_by_id(habit_id) = {} THEN Raised("ValueError", 0)
    ELSE LET entries == get_entries_by_habit(rows, habit_id, start_date, end_date)
             total_days == (end_date - start_date) + 1
             days_completed ==
                 Cardinality({i \in 1..Len(entries) : entries[i].value >= threshold})
             completion_rate == IF total_days > 0
                                THEN RoundDiv(days_completed * 100 * 100, total_days)
                                ELSE 0
         IN Returned([completion_rate |-> completion_rate,
                      days_completed |-> days_completed,
                      total_days |-> total_days], 1)

(* AnalyticsService.get_completion_rate; completion_rate is kept in        *)
(* hundredths of a percent, the unit round(x, 2) rounds to                 *)
get_completion_rate(rows, habit_id, start_date, end_date, threshold) ==
    IF habit_get_by_id(habit_id) = {} THEN Raised("ValueError", 0)
    ELSE LET entries == get_entries_by_habit(rows, habit_id, start_date, end_date)
             total_days == (end_date - start_date) + 1
             days_completed ==
                 Cardinality({i \in 1..Len(entries) : entries[i].value > threshold})
             completion_rate == IF total_days > 0
                                THEN RoundDiv(days_completed * 100 * 100, total_days)
                                ELSE 0
         IN Returned([completion_rate |-> completion_rate,
                      days_completed |-> days_completed,
                      total_days |-> total_days], 1)

(* The operation of the Analytics Engine as a step: it changes nothing but *)
(* the record of the last operation                                        *)
Query(op, habit_id, d1, d2, value, done) ==
    /\ last' = Outcome(op, habit_id, d1, d2, value, done.raised, done.ret, done.reads, 0)
    /\ UNCHANGED <<store, clock, data_providers, goals, running>>

GetHabitStatistics(habit_id, start_date, end_date) ==
    Query("get_habit_statistics", habit_id, start_date, end_date, 0,
          get_habit_statistics(store, habit_id, start_date, end_date))

GetCurrentStreak(habit_id, as_of_date) ==
    Query("get_current_streak", habit_id, as_of_date, as_of_date, 0,
          get_current_streak(store, habit_id, as_of_date))

GetLongestStreak(habit_id, start_date, end_date) ==
    Query("get_longest_streak", habit_id, start_date, end_date, 0,
          get_longest_streak(store, habit_id, start_date, end_date))

----------------------------------------------------------------------------

GetCalendarData(habit_id, year, month) ==
    Query("get_calendar_data", habit_id, year, month, 0,
          get_calendar_data(store, habit_id, year, month))

GetHabitTrend(habit_id, start_date, end_date) ==
    Query("get_habit_trend", habit_id, start_date, end_date, 0,
          get_habit_trend(store, habit_id, start_date, end_date))

GetCompletionRate(habit_id, start_date, end_date, threshold) ==
    Query("get_completion_rate", habit_id, start_date, end_date, threshold,
          get_completion_rate(store, habit_id, start_date, end_date, threshold))

(* The orders in which the elements of a set can come in a list *)
RECURSIVE Orders(_)
Orders(S) ==
    IF S = {} THEN {<<>>}
    ELSE UNION {{<<x>> \o rest : rest \in Orders(S \ {x})} : x \in S}

(* list(log.entries.keys()): the keys come in the order the rows of the    *)
(* SELECT of get_by_date came, which has no ORDER BY                       *)
entries_keys(entries) == Orders({e.habit_id : e \in entries})

(* get_daily_summary reading the entries of every date *)
get_daily_summary_any_date(all_habits, rows, check_date) ==
    {Returned([total_habits |-> Len(all_habits), logged_habits |-> Len(logged_habit_ids),
               logged_habit_ids |-> logged_habit_ids], 1) :
        logged_habit_ids \in Orders({r.habit_id : r \in rows})}

(* AnalyticsService.get_daily_summary over the habits habit_repo.get_all   *)
(* returned: the results it can give, one per order of the keys            *)
get_daily_summary(all_habits, rows, check_date) ==
    LET log == get_by_date(rows, check_date)
        keys == IF log # {} THEN entries_keys((CHOOSE l \in log : TRUE).entries)
                ELSE {<<>>}
    IN {Returned([total_habits |-> Len(all_habits), logged_habits |-> Len(logged_habit_ids),
                  logged_habit_ids |-> logged_habit_ids], 1) :
           logged_habit_ids \in keys}

(* get_dashboard: completion_percentage of a daily summary, in tenths of   *)
(* a percent: round(logged_habits / total_habits * 100, 1), 0 for an empty *)
(* catalog                                                                 *)
completion_percentage(daily_summary) ==
    IF daily_summary.total_habits > 0
    THEN RoundDiv(daily_summary.logged_habits * 1000, daily_summary.total_habits)
    ELSE 0

(* get_daily_summary as a step; value keeps the number of habits the       *)
(* catalog held                                                            *)
GetDailySummary(all_habits, check_date) ==
    \E done \in get_daily_summary(all_habits, store, check_date) :
        Query("get_daily_summary", "", check_date, check_date, Len(all_habits), done)

----------------------------------------------------------------------------
(* Specification of the Recording Orchestrator, from the empty store *)

Next ==
    \/ \E d \in Dates, h \in HabitInputs, v \in Values : RecordHabit(d, h, v)
    \/ \E d \in Dates : \E fetch \in [FetchedHabits(data_providers) -> FetchOutcomes] :
           SyncAutomaticHabits(d, fetch)

Spec == Init /\ [][Next]_vars

----------------------------------------------------------------------------
(* Specification of the read side: the Entry Store holds what earlier      *)
(* record_habit calls left there, and the operations read it.              *)

NotLogged == 0 - 1

(* The store after record_habit(d, habit_id, logged[d]) for each day d of  *)
(* `days` from d on that `logged` gives a value                            *)
RECURSIVE recorded(_, _, _, _)
recorded(rows, habit_id, logged, d) ==
    IF d \notin DOMAIN logged THEN rows
    ELSE IF logged[d] = NotLogged THEN recorded(rows, habit_id, logged, d + 1)
    ELSE recorded(record_habit(rows, 0, d, habit_id, logged[d]).store,
                  habit_id, logged, d + 1)

ReadingLogged == [d \in Span |-> IF d = FirstDay + 1 THEN MaxValue ELSE NotLogged]

SeedStores ==
    {recorded(recorded({}, "reading", ReadingLogged, FirstDay), "steps", logged, FirstDay) :
        logged \in [Span -> Values \cup {NotLogged}]}

Thresholds == {1}
AnalyticsInputs == {"steps", "nonexistent"}
MonthOf(d) == <<isoformat(d)[1], isoformat(d)[2]>>
Months == {MonthOf(FirstDay - 1), MonthOf(FirstDay), MonthOf(FirstDay + 31),
           <<EpochYear + 1, 2>>, <<EpochYear + 2, 4>>}

InitAnalytics ==
    /\ store \in SeedStores
    /\ clock = 0
    /\ data_providers = <<>>
    /\ last = Outcome("init", "", 0, 0, 0, "none", 0, 0, 0)
    /\ goals = {}
    /\ running = NoRequest

NextAnalytics ==
    \/ \E s \in Span, e \in Span : GetByDateRange(s, e)
    \/ \E h \in AnalyticsInputs, s \in Span, e \in Span : GetHabitStatistics(h, s, e)
    \/ \E h \in AnalyticsInputs, d \in Span : GetCurrentStreak(h, d)
    \/ \E h \in AnalyticsInputs, s \in Span, e \in Span : GetLongestStreak(h, s, e)
    \/ \E h \in AnalyticsInputs, ym \in Months : GetCalendarData(h, ym[1], ym[2])
    \/ \E h \in AnalyticsInputs, s \in Span, e \in Span : GetHabitTrend(h, s, e)
    \/ \E h \in AnalyticsInputs, s \in Span, e \in Span, t \in Thresholds :
           GetCompletionRate(h, s, e, t)

SpecAnalytics == InitAnalytics /\ [][NextAnalytics]_vars

----------------------------------------------------------------------------
(* Specification of the streak: the store holds one run of consecutive     *)
(* logged days of "steps" ending on StreakEnd, short or longer than the    *)
(* look-back, and days are recorded around it.                             *)

StreakEnd == FirstDay + StreakLookback + MaxRun + 2

RunLengths == (0..MaxRun) \cup {StreakLookback - 1, StreakLookback + 1}

RunStore(len) ==
    {entry_to_row([habit_id |-> "steps", date |-> StreakEnd - k, value |-> MaxValue,
                   recorded_at |-> 0, source |-> "manual"]) : k \in 0..(len - 1)}

StreakAsOf == {StreakEnd, StreakEnd + 1}
StreakRecordDates == {StreakEnd + 1} \cup {StreakEnd - len : len \in RunLengths}

InitStreak ==
    /\ \E len \in RunLengths : store = RunStore(len)
    /\ clock = 0
    /\ data_providers = <<>>
    /\ last = Outcome("init", "", 0, 0, 0, "none", 0, 0, 0)
    /\ goals = {}
    /\ running = NoRequest

NextStreak ==
    \/ \E d \in StreakRecordDates : RecordHabit(d, "steps", MaxValue)
    \/ \E h \in {"steps", "nonexistent"}, d \in StreakAsOf : GetCurrentStreak(h, d)

SpecStreak == InitStreak /\ [][NextStreak]_vars

----------------------------------------------------------------------------
(* Goal Store: SQLiteGoalRepository.  A goal's optional end_date is None   *)
(* or <<d>>; its row keeps the dates as ISO text, NULL being None.         *)

(* The row save() binds for a goal *)
goal_to_row(goal) ==
    [id |-> goal.id, habit_id |-> goal.habit_id, target_value |-> goal.target_value,
     comparison |-> goal.comparison, period |-> goal.period,
     start_date |-> isoformat(goal.start_date),
     end_date |-> IF goal.end_date # None THEN isoformat(goal.end_date[1]) ELSE None,
     description |-> goal.description]

(* SQLiteGoalRepository._row_to_goal *)
row_to_goal(row) ==
    [id |-> row.id, habit_id |-> row.habit_id, target_value |-> row.target_value,
     comparison |-> row.comparison, period |-> row.period,
     start_date |-> fromisoformat(row.start_date),
     end_date |-> IF row.end_date # None THEN <<fromisoformat(row.end_date)>> ELSE None,
     description |-> row.description]

(* SQLiteGoalRepository.save: INSERT ... ON CONFLICT(id) DO UPDATE *)
goal_save(rows, goal) == {r \in rows : r.id # goal.id} \cup {goal_to_row(goal)}

(* SQLiteGoalRepository.get_by_id: the set holding the goal, or {} for None *)
goal_get_by_id(rows, goal_id) == {row_to_goal(r) : r \in {x \in rows : x.id = goal_id}}

(* SQLiteGoalRepository.get_all: the goals of a SELECT with no ORDER BY *)
goal_get_all(rows) == {row_to_goal(r) : r \in rows}

(* SQLiteGoalRepository.get_by_habit *)
goal_get_by_habit(rows, habit_id) == {row_to_goal(r) : r \in {x \in rows : x.habit_id = habit_id}}

(* SQLiteGoalRepository.get_active_goals: the dates compared as text *)
goal_get_active_goals(rows, habit_id, check_date) ==
    LET check_date_str == isoformat(check_date)
    IN {row_to_goal(r) : r \in {x \in rows :
            /\ x.habit_id = habit_id
            /\ IsoLE(x.start_date, check_date_str)
            /\ x.end_date = None \/ IsoLE(check_date_str, x.end_date)}}

(* SQLiteGoalRepository.delete *)
goal_delete(rows, goal_id) == {r \in rows : r.id # goal_id}

----------------------------------------------------------------------------
(* Goal Manager: GoalService.  Each operation gives the error raised       *)
(* ("none" if it returned), the Goal Store afterwards, the value returned  *)
(* and the goal it found stored under the id.                              *)

(* create_goal with the check of the goal id left out *)
create_goal_overwrites(rows, goal) ==
    LET existing_goal == goal_get_by_id(rows, goal.id)
    IN IF habit_get_by_id(goal.habit_id) = {}
       THEN [raised |-> "HabitNotFoundError", goals |-> rows, ret |-> 0, found |-> {}]
       ELSE IF goal.end_date # None /\ goal.start_date > goal.end_date[1]
       THEN [raised |-> "InvalidGoalConfigError", goals |-> rows, ret |-> 0,
             found |-> existing_goal]
       ELSE [raised |-> "none", goals |-> goal_save(rows, goal), ret |-> goal,
             found |-> existing_goal]

(* create_goal with the date check left out *)
create_goal_unchecked_dates(rows, goal) ==
    LET existing_goal == goal_get_by_id(rows, goal.id)
    IN IF habit_get_by_id(goal.habit_id) = {}
       THEN [raised |-> "HabitNotFoundError", goals |-> rows, ret |-> 0, found |-> {}]
       ELSE IF existing_goal # {}
       THEN [raised |-> "DuplicateResourceError", goals |-> rows, ret |-> 0,
             found |-> existing_goal]
       ELSE [raised |-> "none", goals |-> goal_save(rows, goal), ret |-> goal,
             found |-> existing_goal]

(* GoalService.create_goal; the arguments come as the goal they describe *)
create_goal(rows, goal) ==
    LET existing_goal == goal_get_by_id(rows, goal.id)
    IN IF habit_get_by_id(goal.habit_id) = {}
       THEN [raised |-> "HabitNotFoundError", goals |-> rows, ret |-> 0, found |-> {}]
       ELSE IF existing_goal # {}
       THEN [raised |-> "DuplicateResourceError", goals |-> rows, ret |-> 0,
             found |-> existing_goal]
       ELSE IF goal.end_date # None /\ goal.start_date > goal.end_date[1]
       THEN [raised |-> "InvalidGoalConfigError", goals |-> rows, ret |-> 0,
             found |-> existing_goal]
       ELSE [raised |-> "none", goals |-> goal_save(rows, goal), ret |-> goal,
             found |-> existing_goal]

(* The goal update_goal holds after its assignments; upd gives each of     *)
(* target_value, comparison, end_date, description as None or <<value>>    *)
updated_goal(goal, upd) ==
    [goal EXCEPT
        !.target_value = IF upd.target_value # None THEN upd.target_value[1] ELSE @,
        !.comparison = IF upd.comparison # None THEN upd.comparison[1] ELSE @,
        !.end_date = IF upd.end_date # None THEN upd.end_date ELSE @,
        !.description = IF upd.description # None THEN upd.description[1] ELSE @]

(* update_goal saving what it assigned before it raises *)
update_goal_saves_before_raise(rows, goal_id, upd) ==
    LET found == goal_get_by_id(rows, goal_id)
    IN IF found = {}
       THEN [raised |-> "GoalNotFoundError", goals |-> rows, ret |-> 0, found |-> found]
       ELSE LET goal == CHOOSE g \in found : TRUE
            IN IF upd.end_date # None /\ upd.end_date[1] < goal.start_date
               THEN [raised |-> "ValueError",
                     goals |-> goal_save(rows, updated_goal(goal,
                                   [upd EXCEPT !.end_date = None, !.description = None])),
                     ret |-> 0, found |-> found]
               ELSE [raised |-> "none", goals |-> goal_save(rows, updated_goal(goal, upd)),
                     ret |-> updated_goal(goal, upd), found |-> found]

(* GoalService.update_goal *)
update_goal(rows, goal_id, upd) ==
    LET found == goal_get_by_id(rows, goal_id)
    IN IF found = {}
       THEN [raised |-> "GoalNotFoundError", goals |-> rows, ret |-> 0, found |-> found]
       ELSE LET goal == CHOOSE g \in found : TRUE
            IN IF upd.end_date # None /\ upd.end_date[1] < goal.start_date
               THEN [raised |-> "ValueError", goals |-> rows, ret |-> 0, found |-> found]
               ELSE [raised |-> "none", goals |-> goal_save(rows, updated_goal(goal, upd)),
                     ret |-> updated_goal(goal, upd), found |-> found]

(* delete_goal returning silently when the goal is not stored *)
delete_goal_silent_on_missing(rows, goal_id) ==
    [raised |-> "none", goals |-> goal_delete(rows, goal_id), ret |-> 0,
     found |-> goal_get_by_id(rows, goal_id)]

(* GoalService.delete_goal *)
delete_goal(rows, goal_id) ==
    LET found == goal_get_by_id(rows, goal_id)
    IN IF found = {}
       THEN [raised |-> "GoalNotFoundError", goals |-> rows, ret |-> 0, found |-> found]
       ELSE [raised |-> "none", goals |-> goal_delete(rows, goal_id), ret |-> 0,
             found |-> found]

(* A call of the Goal Manager as a step *)
GoalCall(op, goal_id, args, check_date, done) ==
    /\ goals' = done.goals
    /\ last' = [Outcome(op, "", check_date, check_date, 0, done.raised, done.ret, 0, 0)
                   EXCEPT !.goal = [id |-> goal_id, args |-> args, found |-> done.found]]
    /\ UNCHANGED <<store, clock, data_providers, running>>

CreateGoal(goal) == GoalCall("create_goal", goal.id, goal, 0, create_goal(goals, goal))

UpdateGoal(goal_id, upd) ==
    GoalCall("update_goal", goal_id, upd, 0, update_goal(goals, goal_id, upd))

DeleteGoal(goal_id) ==
    GoalCall("delete_goal", goal_id, <<>>, 0, delete_goal(goals, goal_id))

(* Goal.is_active *)
is_active(goal, check_date) ==
    IF check_date < goal.start_date THEN FALSE
    ELSE IF goal.end_date # None /\ check_date > goal.end_date[1] THEN FALSE
    ELSE TRUE

(* is_met comparing == with at-least *)
is_met_equal_as_at_least(goal, actual_value) ==
    IF goal.comparison = ">=" THEN actual_value >= goal.target_value
    ELSE IF goal.comparison = "<=" THEN actual_value <= goal.target_value
    ELSE IF goal.comparison = "==" THEN actual_value >= goal.target_value
    ELSE FALSE

(* Goal.is_met *)
is_met(goal, actual_value) ==
    IF goal.comparison = ">=" THEN actual_value >= goal.target_value
    ELSE IF goal.comparison = "<=" THEN actual_value <= goal.target_value
    ELSE IF goal.comparison = "==" THEN actual_value = goal.target_value
    ELSE FALSE

(* The days before January 1st of year y, counted from 0001-01-01 *)
days_before_year(y) ==
    (y - 1) * 365 + ((y - 1) \div 4) - ((y - 1) \div 100) + ((y - 1) \div 400)

(* date.weekday(): Monday is 0, from the proleptic ordinal of the date *)
weekday(d) == (days_before_year(EpochYear) + d + 1 + 6) % 7

(* sum(e.value for e in entries), None when there is no entry *)
sum_or_none(entries) ==
    IF entries = <<>> THEN None
    ELSE <<SumSeq([i \in 1..Len(entries) |-> entries[i].value])>>

(* The weekly period taken as the 7 days ending on check_date *)
week_bounds_trailing(check_date) == <<check_date - 6, check_date>>

(* week_start, week_end of _get_actual_value *)
week_bounds(check_date) ==
    LET days_since_monday == weekday(check_date)
        week_start == check_date - days_since_monday
    IN <<week_start, week_start + 6>>

(* The monthly period with December's end taken from the next month's 1st, *)
(* month 13 of the same year wrapping to January of that year              *)
month_bounds_december_wraps(check_date) ==
    LET ymd == isoformat(check_date)
    IN <<fromisoformat(<<ymd[1], ymd[2], 1>>),
         IF ymd[2] = 12 THEN fromisoformat(<<ymd[1], 1, 1>>) - 1
         ELSE fromisoformat(<<ymd[1], ymd[2] + 1, 1>>) - 1>>

(* month_start, month_end of _get_actual_value *)
month_bounds(check_date) ==
    LET ymd == isoformat(check_date)
        month_start == fromisoformat(<<ymd[1], ymd[2], 1>>)
        month_end == IF ymd[2] = 12 THEN fromisoformat(<<ymd[1], 12, 31>>)
                     ELSE fromisoformat(<<ymd[1], ymd[2] + 1, 1>>) - 1
    IN <<month_start, month_end>>

(* GoalService._get_actual_value: None or <<the sum>> *)
get_actual_value(rows, goal, check_date) ==
    IF goal.period = "daily"
    THEN sum_or_none(get_entries_by_habit(rows, goal.habit_id, check_date, check_date))
    ELSE IF goal.period = "weekly"
    THEN LET week == week_bounds(check_date)
         IN sum_or_none(get_entries_by_habit(rows, goal.habit_id, week[1], week[2]))
    ELSE IF goal.period = "monthly"
    THEN LET month == month_bounds(check_date)
         IN sum_or_none(get_entries_by_habit(rows, goal.habit_id, month[1], month[2]))
    ELSE None

(* check_goal_progress treating a sum of zero as no data *)
check_goal_progress_falsy_zero(goalrows, rows, goal_id, check_date) ==
    LET found == goal_get_by_id(goalrows, goal_id)
    IN IF found = {}
       THEN [raised |-> "GoalNotFoundError", goals |-> goalrows, ret |-> 0, found |-> found]
       ELSE LET goal == CHOOSE g \in found : TRUE
                actual_value == get_actual_value(rows, goal, check_date)
            IN [raised |-> "none", goals |-> goalrows, found |-> found,
                ret |-> IF ~is_active(goal, check_date)
                        THEN [is_active |-> FALSE, actual_value |-> None]
                        ELSE IF actual_value = None \/ actual_value = <<0>>
                        THEN [is_active |-> TRUE, actual_value |-> None]
                        ELSE [is_active |-> TRUE, actual_value |-> actual_value,
                              is_met |-> is_met(goal, actual_value[1]),
                              target_value |-> goal.target_value,
                              comparison |-> goal.comparison]]

(* check_goal_progress evaluating the goal on every date *)
check_goal_progress_always_active(goalrows, rows, goal_id, check_date) ==
    LET found == goal_get_by_id(goalrows, goal_id)
    IN IF found = {}
       THEN [raised |-> "GoalNotFoundError", goals |-> goalrows, ret |-> 0, found |-> found]
       ELSE LET goal == CHOOSE g \in found : TRUE
                actual_value == get_actual_value(rows, goal, check_date)
            IN [raised |-> "none", goals |-> goalrows, found |-> found,
                ret |-> IF actual_value = None
                        THEN [is_active |-> TRUE, actual_value |-> None]
                        ELSE [is_active |-> TRUE, actual_value |-> actual_value,
                              is_met |-> is_met(goal, actual_value[1]),
                              target_value |-> goal.target_value,
                              comparison |-> goal.comparison]]

(* GoalService.check_goal_progress; actual_value is None or <<the sum>> *)
check_goal_progress(goalrows, rows, goal_id, check_date) ==
    LET found == goal_get_by_id(goalrows, goal_id)
    IN IF found = {}
       THEN [raised |-> "GoalNotFoundError", goals |-> goalrows, ret |-> 0, found |-> found]
       ELSE LET goal == CHOOSE g \in found : TRUE
                actual_value == get_actual_value(rows, goal, check_date)
            IN [raised |-> "none", goals |-> goalrows, found |-> found,
                ret |-> IF ~is_active(goal, check_date)
                        THEN [is_active |-> FALSE, actual_value |-> None]
                        ELSE IF actual_value = None
                        THEN [is_active |-> TRUE, actual_value |-> None]
                        ELSE [is_active |-> TRUE, actual_value |-> actual_value,
                              is_met |-> is_met(goal, actual_value[1]),
                              target_value |-> goal.target_value,
                              comparison |-> goal.comparison]]

CheckGoalProgress(goal_id, check_date) ==
    GoalCall("check_goal_progress", goal_id, <<>>, check_date,
             check_goal_progress(goals, store, goal_id, check_date))

----------------------------------------------------------------------------
(* Specification of the Goal Manager's create, update and delete, from the *)
(* empty Goal Store                                                        *)

GoalIds == {"g1", "g2"}

OptionalDates(days) == {None} \cup {<<d>> : d \in days}

CreateInputs ==
    {[id |-> id, habit_id |-> h, target_value |-> MaxValue, comparison |-> ">=",
      period |-> "weekly", start_date |-> s, end_date |-> e, description |-> ""] :
        id \in GoalIds, h \in AnalyticsInputs, s \in Dates, e \in OptionalDates(Dates)}

NoUpdate == [target_value |-> None, comparison |-> None, end_date |-> None,
             description |-> None]

(* Updates supplying no field, one field, two fields, or every field *)
UpdateInputs ==
    {NoUpdate,
     [NoUpdate EXCEPT !.target_value = <<1>>],
     [NoUpdate EXCEPT !.comparison = <<"==">>],
     [NoUpdate EXCEPT !.description = <<"x">>],
     [NoUpdate EXCEPT !.target_value = <<1>>, !.comparison = <<"==">>]}
    \cup {[NoUpdate EXCEPT !.end_date = <<d>>] : d \in (FirstDay - 1)..(FirstDay + MaxDay)}
    \cup {[target_value |-> <<1>>, comparison |-> <<"==">>, end_date |-> <<d>>,
           description |-> <<"x">>] : d \in (FirstDay - 1)..(FirstDay + MaxDay)}

InitGoals ==
    /\ store = {}
    /\ clock = 0
    /\ data_providers = <<>>
    /\ last = Outcome("init", "", 0, 0, 0, "none", 0, 0, 0)
    /\ goals = {}
    /\ running = NoRequest

NextGoals ==
    \/ \E goal \in CreateInputs : CreateGoal(goal)
    \/ \E id \in GoalIds \cup {"missing"}, upd \in UpdateInputs : UpdateGoal(id, upd)
    \/ \E id \in GoalIds \cup {"missing"} : DeleteGoal(id)

SpecGoals == InitGoals /\ [][NextGoals]_vars

----------------------------------------------------------------------------
(* Specification of goal progress: the Goal Store holds goals of every     *)
(* period and comparison, created through create_goal; the Entry Store     *)
(* holds what record_habit calls left on days around week, month and year  *)
(* boundaries; check_goal_progress reads both.                             *)

(* Days around the ends of a 31-, 29-, 30- and 28-day month, of a week     *)
(* that crosses a month, and of the week and the December that end a year  *)
ProgressDays ==
    {fromisoformat(ymd) : ymd \in
        {<<EpochYear + 2, 1, 28>>, <<EpochYear + 2, 1, 29>>, <<EpochYear + 2, 1, 31>>,
         <<EpochYear + 2, 2, 1>>, <<EpochYear + 2, 2, 4>>, <<EpochYear + 2, 2, 5>>,
         <<EpochYear + 2, 2, 29>>, <<EpochYear + 2, 3, 1>>,
         <<EpochYear + 2, 4, 30>>, <<EpochYear + 2, 5, 1>>,
         <<EpochYear + 1, 2, 28>>, <<EpochYear + 1, 3, 1>>,
         <<EpochYear + 2, 12, 30>>, <<EpochYear + 2, 12, 31>>,
         <<EpochYear + 3, 1, 1>>, <<EpochYear + 3, 1, 5>>}}

(* The store after record_habit(d, habit_id, value) for each d of `days` *)
RECURSIVE recorded_on(_, _, _, _)
recorded_on(rows, habit_id, days, value) ==
    IF days = {} THEN rows
    ELSE LET d == CHOOSE x \in days : TRUE
         IN recorded_on(record_habit(rows, 0, d, habit_id, value).store,
                        habit_id, days \ {d}, value)

(* "reading" logged on one day, "steps" on no day, one day or two days *)
ProgressStores ==
    LET reading == recorded_on({}, "reading", {fromisoformat(<<EpochYear + 2, 2, 1>>)},
                               MaxValue)
    IN {reading} \cup
       {recorded_on(reading, "steps", {a, b}, v) :
            a \in ProgressDays, b \in ProgressDays, v \in Values}

ProgressGoal(id, comparison, period, target_value, start, end) ==
    [id |-> id, habit_id |-> "steps", target_value |-> target_value,
     comparison |-> comparison, period |-> period,
     start_date |-> fromisoformat(start), end_date |-> end, description |-> ""]

ProgressGoalList == <<
    ProgressGoal("daily_ge", ">=", "daily", 1, <<EpochYear + 2, 1, 29>>, None),
    ProgressGoal("daily_le", "<=", "daily", 1, <<EpochYear + 2, 1, 29>>, None),
    ProgressGoal("daily_eq", "==", "daily", 1, <<EpochYear + 1, 2, 28>>,
                 <<fromisoformat(<<EpochYear + 2, 12, 31>>)>>),
    ProgressGoal("weekly", ">=", "weekly", MaxValue, <<EpochYear + 2, 1, 31>>,
                 <<fromisoformat(<<EpochYear + 3, 1, 1>>)>>),
    ProgressGoal("monthly", ">=", "monthly", MaxValue, <<EpochYear + 1, 2, 28>>, None) >>

ProgressGoalIds == {ProgressGoalList[i].id : i \in 1..Len(ProgressGoalList)}

(* The Goal Store after create_goal of each goal of the list *)
RECURSIVE created(_, _)
created(rows, list) ==
    IF list = <<>> THEN rows
    ELSE created(create_goal(rows, Head(list)).goals, Tail(list))

InitProgress ==
    /\ store \in ProgressStores
    /\ clock = 0
    /\ data_providers = <<>>
    /\ last = Outcome("init", "", 0, 0, 0, "none", 0, 0, 0)
    /\ goals = created({}, ProgressGoalList)
    /\ running = NoRequest

NextProgress ==
    \E id \in ProgressGoalIds \cup {"missing"}, d \in ProgressDays :
        CheckGoalProgress(id, d)

SpecProgress == InitProgress /\ [][NextProgress]_vars

----------------------------------------------------------------------------
(* Specification of the DailyLog: the logs the Recording Orchestrator      *)
(* loads, changes and returns, and add_or_update_entry called on a loaded  *)
(* log with an entry of any date.                                          *)

(* DailyLog.add_or_update_entry on the log of log_date as the Entry Store  *)
(* gives it; the log object is dropped afterwards                          *)
AddOrUpdateEntry(log_date, entry) ==
    LET log == get_or_create(store, log_date)
        added == add_or_update_entry(log, entry)
    IN /\ last' = [Outcome("add_or_update_entry", entry.habit_id, log_date, entry.date,
                           entry.value, added.raised, added.log, 1, 0)
                       EXCEPT !.loaded = log.entries]
       /\ UNCHANGED <<store, clock, data_providers, goals, running>>

InitDailyLog ==
    /\ store = {}
    /\ clock = 0
    /\ data_providers \in {<<>>, <<"github">>}
    /\ last = Outcome("init", "", 0, 0, 0, "none", 0, 0, 0)
    /\ goals = {}
    /\ running = NoRequest

NextDailyLog ==
    \/ \E d \in Dates, h \in HabitInputs, v \in Values : RecordHabit(d, h, v)
    \/ \E d \in Dates : \E fetch \in [FetchedHabits(data_providers) -> FetchOutcomes] :
           SyncAutomaticHabits(d, fetch)
    \/ \E s \in Dates, e \in Dates : GetByDateRange(s, e)
    \/ \E d \in Dates, e \in Dates, h \in {"steps", "reading"} :
           AddOrUpdateEntry(d, [habit_id |-> h, date |-> e, value |-> MaxValue,
                                recorded_at |-> clock, source |-> "manual"])

SpecDailyLog == InitDailyLog /\ [][NextDailyLog]_vars

----------------------------------------------------------------------------
(* Specification of the goal lifecycle: goals are created, updated,        *)
(* checked and deleted, under stored and unknown ids, next to an Entry     *)
(* Store that holds entries.                                               *)

LifecycleStores ==
    {recorded_on({}, "steps", days, MaxValue) : days \in {{FirstDay}, Dates}}

LifecycleCreates ==
    {[id |-> id, habit_id |-> h, target_value |-> MaxValue, comparison |-> ">=",
      period |-> "daily", start_date |-> FirstDay, end_date |-> None,
      description |-> ""] : id \in GoalIds, h \in AnalyticsInputs}

LifecycleUpdates ==
    {[NoUpdate EXCEPT !.target_value = <<1>>],
     [NoUpdate EXCEPT !.end_date = <<FirstDay + MaxDay>>]}

InitLifecycle ==
    /\ store \in LifecycleStores
    /\ clock = 0
    /\ data_providers = <<>>
    /\ last = Outcome("init", "", 0, 0, 0, "none", 0, 0, 0)
    /\ goals = {}
    /\ running = NoRequest

NextLifecycle ==
    \/ \E goal \in LifecycleCreates : CreateGoal(goal)
    \/ \E id \in GoalIds \cup {"missing"}, upd \in LifecycleUpdates : UpdateGoal(id, upd)
    \/ \E id \in GoalIds \cup {"missing"} : DeleteGoal(id)
    \/ \E id \in GoalIds \cup {"missing"}, d \in Dates : CheckGoalProgress(id, d)

SpecLifecycle == InitLifecycle /\ [][NextLifecycle]_vars

----------------------------------------------------------------------------
(* Specification of the daily summary: the Entry Store holds what earlier  *)
(* record_habit calls left there; the catalog is the fixed one, or empty   *)
(* as the habits table is before initialize_habits filled it.              *)

SummaryCatalogs == {habit_get_all, <<>>}

NextSummary ==
    \E all_habits \in SummaryCatalogs, d \in Span : GetDailySummary(all_habits, d)

SpecSummary == InitAnalytics /\ [][NextSummary]_vars

----------------------------------------------------------------------------
(* Garmin provider: GarminHabitDataProvider.  The Garmin client is what    *)
(* its two calls do: each throws, or returns; a summary is a dict, a key   *)
(* it lacks is outside its DOMAIN and a key it holds as null has None; an  *)
(* activity gives its duration in seconds and its type key as None (key    *)
(* absent) or <<value>>.  A request is the habit's provider_config with    *)
(* the client.                                                             *)

GarminMetrics == {"steps", "heart_rate", "exercise"}

(* _get_steps without its exception handler *)
get_steps_unguarded(client, date) ==
    IF client.summary.kind = "throws" THEN [raised |-> "Exception", ret |-> None]
    ELSE IF "totalSteps" \notin DOMAIN client.summary.value
    THEN [raised |-> "none", ret |-> <<0>>]
    ELSE IF client.summary.value["totalSteps"] = None
    THEN [raised |-> "TypeError", ret |-> None]
    ELSE [raised |-> "none", ret |-> <<client.summary.value["totalSteps"][1]>>]

(* GarminHabitDataProvider._get_steps: float(None) is a TypeError, caught  *)
(* like every exception of the client                                      *)
get_steps(client, date) ==
    IF client.summary.kind = "throws" THEN [raised |-> "none", ret |-> <<0>>]
    ELSE IF "totalSteps" \notin DOMAIN client.summary.value
    THEN [raised |-> "none", ret |-> <<0>>]
    ELSE IF client.summary.value["totalSteps"] = None
    THEN [raised |-> "none", ret |-> <<0>>]
    ELSE [raised |-> "none", ret |-> <<client.summary.value["totalSteps"][1]>>]

(* GarminHabitDataProvider._get_heart_rate *)
get_heart_rate(client, date) ==
    IF client.summary.kind = "throws" THEN [raised |-> "none", ret |-> <<0>>]
    ELSE IF "restingHeartRate" \notin DOMAIN client.summary.value
    THEN [raised |-> "none", ret |-> <<0>>]
    ELSE IF client.summary.value["restingHeartRate"] = None
    THEN [raised |-> "none", ret |-> <<0>>]
    ELSE [raised |-> "none", ret |-> <<client.summary.value["restingHeartRate"][1]>>]

(* The loop of _get_exercise_minutes: total_seconds after the activities   *)
(* from i on; activity_type is None or <<the configured type>>             *)
RECURSIVE exercise_loop(_, _, _, _)
exercise_loop(activities, i, activity_type, total_seconds) ==
    IF i > Len(activities) THEN total_seconds
    ELSE IF activity_type # None /\ activity_type[1] # ""
            /\ activities[i].typeKey # activity_type
    THEN exercise_loop(activities, i + 1, activity_type, total_seconds)
    ELSE exercise_loop(activities, i + 1, activity_type,
                       total_seconds + (IF activities[i].duration = None THEN 0
                                        ELSE activities[i].duration[1]))

(* GarminHabitDataProvider._get_exercise_minutes: total_seconds / 60 *)
get_exercise_minutes(client, date, activity_type) ==
    IF client.activities.kind = "throws" THEN [raised |-> "none", ret |-> <<Div(0, 1)>>]
    ELSE [raised |-> "none",
          ret |-> <<Div(exercise_loop(client.activities.value, 1, activity_type, 0), 60)>>]

(* GarminHabitDataProvider.fetch_data: the error raised, if any, and the   *)
(* value returned, None or <<value>>                                       *)
fetch_data(provider_config, client, date) ==
    IF DOMAIN provider_config = {} THEN [raised |-> "none", ret |-> None]
    ELSE IF "metric" \notin DOMAIN provider_config \/ provider_config["metric"] = ""
    THEN [raised |-> "none", ret |-> None]
    ELSE IF provider_config["metric"] \notin GarminMetrics
    THEN [raised |-> "none", ret |-> None]
    ELSE IF provider_config["metric"] = "steps" THEN get_steps(client, date)
    ELSE IF provider_config["metric"] = "heart_rate" THEN get_heart_rate(client, date)
    ELSE get_exercise_minutes(client, date,
             IF "activity_type" \in DOMAIN provider_config
             THEN <<provider_config["activity_type"]>> ELSE None)

(* fetch_data as a step: it changes nothing but the record of the call *)
FetchData(provider_config, client, date) ==
    LET done == fetch_data(provider_config, client, date)
    IN /\ last' = [Outcome("fetch_data", "", date, date, 0, done.raised, done.ret, 0, 0)
                       EXCEPT !.goal = [id |-> "", args |-> [provider_config |-> provider_config,
                                                              client |-> client],
                                        found |-> {}]]
       /\ UNCHANGED <<store, clock, data_providers, goals, running>>

(* A dict with string keys, from a set of <<key, value>> pairs *)
Dict(pairs) == [k \in {p[1] : p \in pairs} |-> (CHOOSE p \in pairs : p[1] = k)[2]]

GarminConfigs ==
    {NoConfig,
     Dict({<<"provider", "garmin">>}),
     Dict({<<"provider", "garmin">>, <<"metric", "sleep">>}),
     Dict({<<"provider", "garmin">>, <<"metric", "exercise">>, <<"activity_type", "running">>})}
    \cup {ProviderConfig("garmin", metric) : metric \in GarminMetrics}

Throws == [kind |-> "throws", value |-> <<>>]

GarminSummaries ==
    {Throws}
    \cup {[kind |-> "returns", value |-> Dict({})]}
    \cup {[kind |-> "returns", value |-> Dict({<<"totalSteps", v>>})] :
              v \in {None} \cup {<<n>> : n \in Values}}
    \cup {[kind |-> "returns", value |-> Dict({<<"restingHeartRate", v>>})] :
              v \in {None} \cup {<<n>> : n \in Values}}

GarminActivity ==
    {[duration |-> d, typeKey |-> t] :
        d \in {None, <<1800>>, <<900>>, <<90>>}, t \in {None, <<"running">>, <<"cycling">>}}

GarminActivityLists ==
    {Throws}
    \cup {[kind |-> "returns", value |-> <<>>]}
    \cup {[kind |-> "returns", value |-> <<a>>] : a \in GarminActivity}
    \cup {[kind |-> "returns", value |-> <<a, b>>] :
              a \in {[duration |-> <<1800>>, typeKey |-> <<"running">>]}, b \in GarminActivity}

(* A client whose summary call is of interest, or whose activity call is *)
GarminClients ==
    {[summary |-> x, activities |-> Throws] : x \in GarminSummaries}
    \cup {[summary |-> Throws, activities |-> x] : x \in GarminActivityLists}

NextGarmin ==
    \E provider_config \in GarminConfigs, client \in GarminClients :
        FetchData(provider_config, client, FirstDay)

SpecGarmin == Init /\ [][NextGarmin]_vars

----------------------------------------------------------------------------
(* Specification of concurrent recording: the routes are plain functions,  *)
(* which the server runs in worker threads over one shared connection, and *)
(* the Recording Orchestrator takes no lock, so two calls interleave at    *)
(* their accesses to the Entry Store: the load of the log (get_or_create)  *)
(* and its save.  What a call does in between touches its own log only.    *)

(* A call between its load and its save: the log it holds, the entries it  *)
(* loaded and the habit ids it recorded in the log                         *)
Loaded(op, target_date, habit_id, value, loaded, log) ==
    [pc |-> "loaded", op |-> op, date |-> target_date, habit_id |-> habit_id,
     value |-> value, loaded |-> loaded, log |-> log,
     recorded |-> {e.habit_id : e \in log.entries \ loaded}]

(* record_habit up to the save: the habit check, the load of the log and   *)
(* the new entry put in it                                                 *)
RecordHabitLoad(w, target_date, habit_id, value) ==
    /\ running[w] = Idle
    /\ IF habit_get_by_id(habit_id) = {}
       THEN /\ last' = Outcome("record_habit", habit_id, target_date, target_date, value,
                               "ValueError", 0, 0, 0)
            /\ UNCHANGED <<clock, running>>
       ELSE LET log == get_or_create(store, target_date)
                entry == [habit_id |-> habit_id, date |-> target_date, value |-> value,
                          recorded_at |-> clock, source |-> "manual"]
                added == add_or_update_entry(log, entry)
            IN /\ clock + 1 <= MaxClock
               /\ clock' = clock + 1
               /\ running' = [running EXCEPT ![w] =
                      Loaded("record_habit", target_date, habit_id, value,
                             log.entries, added.log)]
               /\ last' = last
    /\ UNCHANGED <<store, data_providers, goals>>

(* sync_automatic_habits up to the save: the load of the log and the loop  *)
(* over the automatic habits; a provider that raises ends the call         *)
SyncAutomaticHabitsLoad(w, target_date, fetch) ==
    LET log == get_or_create(store, target_date)
        done == sync_loop(automatic_habits, 1, log, clock, fetch, data_providers)
    IN /\ running[w] = Idle
       /\ done.now <= MaxClock
       /\ clock' = done.now
       /\ IF done.raised # "none"
          THEN /\ last' = [Outcome("sync_automatic_habits", "", target_date, target_date,
                                   0, done.raised, 0, 1, 0)
                               EXCEPT !.loaded = log.entries]
               /\ running' = running
          ELSE /\ running' = [running EXCEPT ![w] =
                      Loaded("sync_automatic_habits", target_date, "", 0,
                             log.entries, done.log)]
               /\ last' = last
       /\ UNCHANGED <<store, data_providers, goals>>

(* log_repo.save(log) and the return of the call *)
SaveLog(w) ==
    /\ running[w] # Idle
    /\ store' = save(store, running[w].log)
    /\ last' = [Outcome(running[w].op, running[w].habit_id, running[w].date,
                        running[w].date, running[w].value, "none", running[w].log, 1, 1)
                    EXCEPT !.loaded = running[w].loaded]
    /\ running' = [running EXCEPT ![w] = Idle]
    /\ UNCHANGED <<clock, data_providers, goals>>

(* The empty store, and the store an earlier record_habit left, its entry   *)
(* recorded before the clock of the model starts                           *)
ConcurrentStores ==
    {{}, record_habit({}, 0 - 1, FirstDay, "reading", MaxValue).store}

InitConcurrent ==
    /\ store \in ConcurrentStores
    /\ clock = 0
    /\ data_providers \in {<<>>, <<"github">>}
    /\ last = Outcome("init", "", 0, 0, 0, "none", 0, 0, 0)
    /\ goals = {}
    /\ running = NoRequest

NextConcurrent ==
    \/ \E w \in Workers, d \in Dates, h \in HabitInputs, v \in Values :
           RecordHabitLoad(w, d, h, v)
    \/ \E w \in Workers, d \in Dates :
           \E fetch \in [FetchedHabits(data_providers) -> FetchOutcomes] :
               SyncAutomaticHabitsLoad(w, d, fetch)
    \/ \E w \in Workers : SaveLog(w)

SpecConcurrent == InitConcurrent /\ [][NextConcurrent]_vars

----------------------------------------------------------------------------
(* Goal routes: the HTTP adapter of the Goal Manager as main.py wires it.  *)
(* A request body comes with its dates and enums already well formed.      *)

(* The base class of each exception class the Goal Manager raises *)
ExceptionBase ==
    [c \in {"GoalNotFoundError", "HabitNotFoundError", "ResourceNotFoundError",
            "DuplicateResourceError", "BusinessRuleViolationError",
            "InvalidGoalConfigError", "ValidationError", "HabitTrackerException",
            "ValueError"} |->
        CASE c \in {"GoalNotFoundError", "HabitNotFoundError"} -> "ResourceNotFoundError"
          [] c = "DuplicateResourceError" -> "BusinessRuleViolationError"
          [] c = "InvalidGoalConfigError" -> "ValidationError"
          [] c \in {"ResourceNotFoundError", "BusinessRuleViolationError",
                    "ValidationError"} -> "HabitTrackerException"
          [] OTHER -> "Exception"]

(* isinstance(e, cls) for an exception of class raised *)
RECURSIVE isinstance(_, _)
isinstance(raised, cls) ==
    IF raised = cls THEN TRUE
    ELSE IF raised \notin DOMAIN ExceptionBase THEN FALSE
    ELSE isinstance(ExceptionBase[raised], cls)

(* The exception handlers registered with the app: main.py creates the app *)
(* and includes the routers, and registers no handler                      *)
app_exception_handlers == {}

(* The app with register_exception_handlers(app) called: the status each   *)
(* handler answers with                                                    *)
app_exception_handlers_registered ==
    {<<"ResourceNotFoundError", 404>>, <<"HabitNotFoundError", 404>>,
     <<"GoalNotFoundError", 404>>, <<"ValidationError", 400>>,
     <<"InvalidGoalConfigError", 400>>, <<"BusinessRuleViolationError", 409>>,
     <<"DuplicateResourceError", 409>>, <<"HabitTrackerException", 500>>}

(* The response to an exception that left a route: the status of a         *)
(* registered handler of its class or of a base class, 500 without one     *)
RECURSIVE unhandled_status(_)
unhandled_status(raised) ==
    IF \E h \in app_exception_handlers : h[1] = raised
    THEN (CHOOSE h \in app_exception_handlers : h[1] = raised)[2]
    ELSE IF raised \in DOMAIN ExceptionBase THEN unhandled_status(ExceptionBase[raised])
    ELSE 500

(* try: service call / except ValueError: HTTPException(on_value_error);   *)
(* the status of the response, ok when the call returned                   *)
route_status(done, ok, on_value_error) ==
    IF done.raised = "none" THEN ok
    ELSE IF isinstance(done.raised, "ValueError") THEN on_value_error
    ELSE unhandled_status(done.raised)

(* A request to a goal route as a step: value keeps the response status *)
RouteCall(op, goal_id, args, check_date, done, status) ==
    /\ goals' = done.goals
    /\ last' = [Outcome(op, "", check_date, check_date, status, done.raised, done.ret, 0, 0)
                   EXCEPT !.goal = [id |-> goal_id, args |-> args, found |-> done.found]]
    /\ UNCHANGED <<store, clock, data_providers, running>>

(* POST /habits/{habit_id}/goals *)
PostGoal(habit_id, body) ==
    IF body.habit_id # habit_id
    THEN RouteCall("POST goals", body.id, body, 0,
                   [raised |-> "none", goals |-> goals, ret |-> 0,
                    found |-> goal_get_by_id(goals, body.id)], 400)
    ELSE LET done == create_goal(goals, body)
         IN RouteCall("POST goals", body.id, body, 0, done, route_status(done, 201, 400))

(* PUT /goals/{goal_id} *)
PutGoal(goal_id, body) ==
    LET done == update_goal(goals, goal_id, body)
    IN RouteCall("PUT goal", goal_id, body, 0, done, route_status(done, 200, 404))

(* DELETE /goals/{goal_id} *)
DeleteGoalRoute(goal_id) ==
    LET done == delete_goal(goals, goal_id)
    IN RouteCall("DELETE goal", goal_id, <<>>, 0, done, route_status(done, 204, 404))

(* GET /goals/{goal_id}/progress *)
GetGoalProgress(goal_id, check_date) ==
    LET done == check_goal_progress(goals, store, goal_id, check_date)
        status == IF done.raised = "none" /\ goal_get_by_id(goals, goal_id) = {}
                  THEN 404 ELSE route_status(done, 200, 404)
    IN RouteCall("GET progress", goal_id, <<>>, check_date, done, status)

NextRoutes ==
    \/ \E body \in LifecycleCreates, habit_id \in AnalyticsInputs : PostGoal(habit_id, body)
    \/ \E id \in GoalIds \cup {"missing"}, body \in LifecycleUpdates : PutGoal(id, body)
    \/ \E id \in GoalIds \cup {"missing"} : DeleteGoalRoute(id)
    \/ \E id \in GoalIds \cup {"missing"}, d \in Dates : GetGoalProgress(id, d)

SpecRoutes == InitLifecycle /\ [][NextRoutes]_vars

----------------------------------------------------------------------------
(* Properties of the Recording Orchestrator *)

RowsOf(habit_id, d) == {r \in store : r.habit_id = habit_id /\ r.date = isoformat(d)}

Wrote(op) == last.op = op /\ last.raised = "none"

(* C1: after any sequence of record_habit and sync_automatic_habits the    *)
(* Entry Store holds at most one row per (habit id, date); after a         *)
(* record_habit the pair written has exactly one row, with the value       *)
(* given, the instant of this write and source manual, whatever the log    *)
(* held before; after a sync every entry of the log saved is the one row   *)
(* of its pair, the fetched ones with source automatic and the instants   *)
(* of this sync.                                                           *)
C1_OneEntryPerHabitAndDate ==
    /\ \A r1 \in store, r2 \in store : Key(r1) = Key(r2) => r1 = r2
    /\ Wrote("record_habit") =>
           RowsOf(last.habit_id, last.date) =
               {[date |-> isoformat(last.date), habit_id |-> last.habit_id,
                 value |-> last.value, recorded_at |-> clock - 1, source |-> "manual"]}
    /\ Wrote("sync_automatic_habits") =>
           LET fetched == last.ret.entries \ last.loaded
           IN /\ \A e \in last.ret.entries : RowsOf(e.habit_id, last.date) = {entry_to_row(e)}
              /\ \A e \in fetched :
                     /\ e.source = "automatic"
                     /\ e.recorded_at \in (clock - Cardinality(fetched))..(clock - 1)

(* A manual record has just replaced a synced entry of another value *)
C1_Witness_Overwrite ==
    /\ Wrote("record_habit")
    /\ \E e \in last.loaded : /\ e.habit_id = last.habit_id
                              /\ e.value # last.value
                              /\ e.source = "automatic"
                              /\ e.recorded_at < clock - 1
    /\ Cardinality(RowsOf(last.habit_id, last.date)) = 1

(* C2: right after record_habit(d, h, v) the log of d read back through    *)
(* get_or_create is the log of d and has exactly one entry for h, with     *)
(* value v and source manual, whatever the store held before.              *)
C2_RecordThenReadRoundTrip ==
    Wrote("record_habit") =>
        LET log == get_or_create(store, last.date)
            mine == {e \in log.entries : e.habit_id = last.habit_id}
        IN /\ log.date = last.date
           /\ Cardinality(mine) = 1
           /\ \A e \in mine : e.value = last.value /\ e.source = "manual" /\ e.date = last.date

(* A record on a date whose log already held another habit, both read back *)
C2_Witness_ReadBack ==
    /\ Wrote("record_habit")
    /\ last.value > 0
    /\ \E e \in last.loaded : e.habit_id # last.habit_id
    /\ \E e \in get_or_create(store, last.date).entries :
           e.habit_id = last.habit_id /\ e.value = last.value
    /\ last.loaded \subseteq get_or_create(store, last.date).entries

(* C3: record_habit with a habit id outside the catalog fails with         *)
(* HabitNotFoundError, leaves the Entry Store as it was and neither loads  *)
(* nor saves a log.                                                        *)
C3_UnknownHabitRaisesHabitNotFound ==
    [][(last'.op = "record_habit" /\ last'.habit_id \notin CatalogIds) =>
           /\ last'.raised = "HabitNotFoundError"
           /\ store' = store
           /\ last'.log_reads = 0
           /\ last'.log_saves = 0]_vars

----------------------------------------------------------------------------
(* Properties of the read side *)

(* C4: get_by_date_range(start, end) with start > end raises               *)
(* InvalidDateRangeError without querying the Entry Store; with            *)
(* start <= end it returns what the store's range lookup returns.          *)
C4_InvertedRangeRaisesInvalidDateRange ==
    last.op = "get_by_date_range" =>
        IF last.date > last.end
        THEN last.raised = "InvalidDateRangeError" /\ last.log_reads = 0
        ELSE last.raised = "none" /\ last.ret = get_by_date_range(store, last.date, last.end)

(* C5: get_habit_statistics of a catalog habit with start > end fails with *)
(* InvalidDateRangeError and returns no result.                            *)
C5_StatisticsInvertedRangeRaises ==
    (/\ last.op = "get_habit_statistics"
     /\ last.habit_id \in CatalogIds
     /\ last.date > last.end) => last.raised = "InvalidDateRangeError"

PerHabitOps ==
    {"get_habit_statistics", "get_current_streak", "get_longest_streak",
     "get_calendar_data", "get_habit_trend", "get_completion_rate"}

(* C6: every per-habit operation of the Analytics Engine called with a     *)
(* habit id outside the catalog fails with HabitNotFoundError before any   *)
(* read of the Entry Store.                                                *)
C6_AnalyticsUnknownHabitRaisesHabitNotFound ==
    (last.op \in PerHabitOps /\ last.habit_id \notin CatalogIds) =>
        last.raised = "HabitNotFoundError" /\ last.log_reads = 0

(* The rows of a habit dated in [start, end], read off the table itself *)
RowsIn(habit_id, start, end) ==
    {r \in store : r.habit_id = habit_id /\ \E d \in start..end : r.date = isoformat(d)}

HasEntry(habit_id, d) == RowsIn(habit_id, d, d) # {}

RECURSIVE SumRows(_)
SumRows(rows) ==
    IF rows = {} THEN 0
    ELSE LET r == CHOOSE x \in rows : TRUE IN r.value + SumRows(rows \ {r})

Asked(op) == last.op = op /\ last.habit_id \in CatalogIds

(* C7: for a catalog habit and start <= end, get_habit_statistics returns  *)
(* count = days_logged = the number of the habit's entries dated in        *)
(* [start, end], total = their sum, min and max = their least and greatest *)
(* value, average = total / count and days_in_range = (end - start) + 1;   *)
(* with no such entry min = max = average = total = 0 and                  *)
(* count = days_logged = 0, days_in_range still (end - start) + 1.         *)
C7_StatisticsOfRange ==
    (Asked("get_habit_statistics") /\ last.date <= last.end) =>
        LET rows == RowsIn(last.habit_id, last.date, last.end)
            n == Cardinality(rows)
            st == last.ret
        IN /\ last.raised = "none"
           /\ st.count = n
           /\ st.days_logged = n
           /\ st.total = SumRows(rows)
           /\ st.days_in_range = (last.end - last.date) + 1
           /\ st.average.den > 0
           /\ IF n = 0
              THEN st.min = 0 /\ st.max = 0 /\ st.average.num = 0
              ELSE /\ \E r \in rows : r.value = st.min
                   /\ \A r \in rows : st.min <= r.value
                   /\ \E r \in rows : r.value = st.max
                   /\ \A r \in rows : r.value <= st.max
                   /\ st.average.num * n = SumRows(rows) * st.average.den

(* Statistics over a range with a day not logged and two unequal values *)
C7_Witness_TwoValues ==
    /\ Asked("get_habit_statistics")
    /\ last.raised = "none"
    /\ last.ret.count = 2
    /\ last.ret.days_in_range = 3
    /\ last.ret.min < last.ret.max
    /\ last.ret.average.num = last.ret.min + last.ret.max

(* The days without an entry among as_of, as_of - 1, ...; there is one     *)
(* within as many days as the table has rows                               *)
GapsBefore(habit_id, as_of) ==
    {k \in 0..Cardinality(store) : ~HasEntry(habit_id, as_of - k)}

(* The number of consecutive days ending at as_of that each have an entry *)
ConsecutiveDays(habit_id, as_of) ==
    LET gaps == GapsBefore(habit_id, as_of)
    IN CHOOSE k \in gaps : \A j \in gaps : k <= j

(* C8: get_current_streak(habit, as_of) is min(365, n), n being the number *)
(* of consecutive days ending at as_of that each have an entry of the      *)
(* habit: 0 when as_of has no entry, never more than 365.                  *)
C8_CurrentStreakIsCappedRun ==
    Asked("get_current_streak") =>
        LET n == ConsecutiveDays(last.habit_id, last.date)
        IN /\ last.raised = "none"
           /\ last.ret = IF n < 365 THEN n ELSE 365
           /\ last.ret <= 365
           /\ ~HasEntry(last.habit_id, last.date) => last.ret = 0

(* A streak asked on a run that goes on behind the 365th day *)
C8_Witness_RunBeyondCap ==
    /\ Asked("get_current_streak")
    /\ last.ret = 365
    /\ ConsecutiveDays(last.habit_id, last.date) > 365

(* C9: when get_current_streak(h, as_of) is s >= 1 and record_habit then   *)
(* records h on day as_of - s, get_current_streak(h, as_of) afterwards is  *)
(* at least s, and at least s + 1 when s < 365.                            *)
C9_StreakGrowsWhenExtended ==
    [][\A as_of \in StreakAsOf :
        LET h == last'.habit_id
            s == get_current_streak(store, h, as_of).ret
        IN (/\ last'.op = "record_habit"
            /\ last'.raised = "none"
            /\ s >= 1
            /\ last'.date = as_of - s) =>
               LET after == get_current_streak(store', h, as_of).ret
               IN after >= s /\ (s < 365 => after >= s + 1)]_vars

(* A record on the free day before a streak of 364, which made it 365 *)
C9_Witness_ExtendedToCap ==
    /\ Wrote("record_habit")
    /\ last.loaded = {}
    /\ last.date = StreakEnd - 364
    /\ \A k \in 0..363 : HasEntry(last.habit_id, StreakEnd - k)
    /\ get_current_streak(store, last.habit_id, StreakEnd).ret = 365

(* C10: for a catalog habit and start <= end the length returned by        *)
(* get_longest_streak is within 0..days_in_range, days_in_range being      *)
(* (end - start) + 1, and is days_in_range when every day of [start, end]  *)
(* has an entry of the habit.                                              *)
C10_LongestStreakWithinRange ==
    (Asked("get_longest_streak") /\ last.date <= last.end) =>
        LET days_in_range == (last.end - last.date) + 1
        IN /\ last.raised = "none"
           /\ last.ret.length \in 0..days_in_range
           /\ (\A d \in last.date..last.end : HasEntry(last.habit_id, d)) =>
                  last.ret.length = days_in_range

(* A range of several days, every one logged *)
C10_Witness_EveryDayLogged ==
    /\ Asked("get_longest_streak")
    /\ last.end - last.date >= 2
    /\ \A d \in last.date..last.end : HasEntry(last.habit_id, d)
    /\ last.ret.length = (last.end - last.date) + 1

(* The value of the habit's entry dated with the text iso, 0 without one *)
ValueOn(habit_id, iso) ==
    LET rows == {r \in store : r.habit_id = habit_id /\ r.date = iso}
    IN IF rows = {} THEN 0 ELSE (CHOOSE r \in rows : TRUE).value

(* The number of days of a month of the Gregorian calendar *)
MonthLength(y, m) ==
    IF m \in {1, 3, 5, 7, 8, 10, 12} THEN 31
    ELSE IF m \in {4, 6, 9, 11} THEN 30
    ELSE IF (y % 4 = 0 /\ y % 100 # 0) \/ y % 400 = 0 THEN 29
    ELSE 28

(* C11: for a catalog habit, get_calendar_data(year, month) returns one    *)
(* point per day of the month, from the 1st to the last in ascending       *)
(* order (31 for December, 29 or 28 for February), and                     *)
(* get_habit_trend(start, end) returns (end - start) + 1 points, the i-th  *)
(* dated start + i; a point's value is the entry value of its day, 0       *)
(* when the day has no entry.                                              *)
C11_OnePointPerDay ==
    /\ Asked("get_calendar_data") =>
           /\ last.raised = "none"
           /\ Len(last.ret) = MonthLength(last.date, last.end)
           /\ \A i \in 1..Len(last.ret) :
                  /\ last.ret[i].date = <<last.date, last.end, i>>
                  /\ last.ret[i].value = ValueOn(last.habit_id, last.ret[i].date)
    /\ (Asked("get_habit_trend") /\ last.date <= last.end) =>
           /\ last.raised = "none"
           /\ Len(last.ret) = (last.end - last.date) + 1
           /\ \A i \in 1..Len(last.ret) :
                  /\ last.ret[i].date = isoformat(last.date + (i - 1))
                  /\ last.ret[i].value = ValueOn(last.habit_id, last.ret[i].date)

(* The calendar of a 31-day month with a logged day and a day not logged *)
C11_Witness_MonthWithEntries ==
    /\ Asked("get_calendar_data")
    /\ Len(last.ret) = 31
    /\ \E i \in 1..31 : last.ret[i].value > 0
    /\ \E i \in 1..31 : /\ last.ret[i].value = 0
                        /\ ~\E r \in store : r.habit_id = last.habit_id
                                             /\ r.date = last.ret[i].date
    /\ \E r \in store : r.habit_id = last.habit_id /\ r.date = last.ret[1].date

----------------------------------------------------------------------------
(* Properties of the Goal Manager *)

GoalRows(rows, goal_id) == {r \in rows : r.id = goal_id}

(* C18: create_goal fails with HabitNotFoundError for a habit outside the  *)
(* catalog, else with DuplicateResourceError when a goal of that id is     *)
(* stored, else with InvalidGoalConfigError when an end_date is given and  *)
(* start_date > end_date; a failing call leaves the Goal Store as it was;  *)
(* otherwise the goal is stored with the fields given and the other goals  *)
(* stay.                                                                   *)
C18_CreateGoalValidates ==
    [][last'.op = "create_goal" =>
        LET g == last'.goal.args
        IN IF g.habit_id \notin CatalogIds
           THEN last'.raised = "HabitNotFoundError" /\ goals' = goals
           ELSE IF GoalRows(goals, g.id) # {}
           THEN last'.raised = "DuplicateResourceError" /\ goals' = goals
           ELSE IF g.end_date # None /\ g.start_date > g.end_date[1]
           THEN last'.raised = "InvalidGoalConfigError" /\ goals' = goals
           ELSE /\ last'.raised = "none"
                /\ goals' \ GoalRows(goals', g.id) = goals
                /\ goal_get_by_id(goals', g.id) = {g}
                /\ Cardinality(GoalRows(goals', g.id)) = 1]_vars

(* A create under a stored id with other fields, refused, the goal kept *)
C18_Witness_DuplicateRefused ==
    /\ last.op = "create_goal"
    /\ last.raised = "DuplicateResourceError"
    /\ last.goal.found # {last.goal.args}
    /\ goal_get_by_id(goals, last.goal.id) = last.goal.found
    /\ last.goal.args.end_date # None
    /\ last.goal.args.start_date > last.goal.args.end_date[1]

(* C19: in every Goal Store reached from the empty one by create_goal,     *)
(* update_goal and delete_goal calls, failing or not, every goal with an   *)
(* end_date has start_date <= end_date, and no two goals share an id.      *)
C19_GoalStoreInvariant ==
    /\ \A r \in goals :
           r.end_date # None => fromisoformat(r.start_date) <= fromisoformat(r.end_date)
    /\ \A r1 \in goals, r2 \in goals : r1.id = r2.id => r1 = r2

(* Two goals stored, one of them with an end_date, after an update that    *)
(* asked for an end_date before its start_date                             *)
C19_Witness_AfterRejectedUpdate ==
    /\ Cardinality(goals) = 2
    /\ last.op = "update_goal"
    /\ last.raised = "ValueError"
    /\ \E r \in GoalRows(goals, last.goal.id) : r.end_date # None

(* C20: update_goal of a stored goal changes the fields supplied among     *)
(* target_value, comparison, end_date and description and no other field   *)
(* of it nor any other goal; when the end_date supplied precedes the       *)
(* goal's start_date the call fails and the Goal Store stays as it was.    *)
C20_UpdateGoalChangesSuppliedFields ==
    [][(last'.op = "update_goal" /\ GoalRows(goals, last'.goal.id) # {}) =>
        LET upd == last'.goal.args
            old == CHOOSE r \in GoalRows(goals, last'.goal.id) : TRUE
        IN IF upd.end_date # None /\ upd.end_date[1] < fromisoformat(old.start_date)
           THEN last'.raised # "none" /\ goals' = goals
           ELSE /\ last'.raised = "none"
                /\ goals' \ GoalRows(goals', old.id) = goals \ {old}
                /\ GoalRows(goals', old.id) =
                       {[id |-> old.id, habit_id |-> old.habit_id, period |-> old.period,
                         start_date |-> old.start_date,
                         target_value |-> IF upd.target_value # None
                                          THEN upd.target_value[1] ELSE old.target_value,
                         comparison |-> IF upd.comparison # None
                                        THEN upd.comparison[1] ELSE old.comparison,
                         end_date |-> IF upd.end_date # None
                                      THEN isoformat(upd.end_date[1]) ELSE old.end_date,
                         description |-> IF upd.description # None
                                         THEN upd.description[1] ELSE old.description]}]_vars

(* An update supplying every field, refused for its end_date, the goal     *)
(* stored as before with the fields it had                                 *)
C20_Witness_RejectedWholly ==
    /\ last.op = "update_goal"
    /\ last.raised = "ValueError"
    /\ last.goal.args.target_value # None
    /\ last.goal.args.description # None
    /\ goal_get_by_id(goals, last.goal.id) = last.goal.found
    /\ \A g \in last.goal.found : /\ g.target_value # last.goal.args.target_value[1]
                                  /\ g.description # last.goal.args.description[1]

----------------------------------------------------------------------------
(* Properties of goal progress *)

(* check_goal_progress was the last call and found its goal *)
Checked == last.op = "check_goal_progress" /\ GoalRows(goals, last.goal.id) # {}

(* The row of the goal checked, as the Goal Store holds it *)
CheckedGoal == CHOOSE r \in goals : r.id = last.goal.id

(* start_date <= d and end_date absent or d <= end_date, on the stored text *)
ActiveOn(row, d) ==
    /\ IsoLE(row.start_date, isoformat(d))
    /\ row.end_date = None \/ IsoLE(isoformat(d), row.end_date)

(* C13: on a check date before the goal's start_date, or after its         *)
(* end_date when one is set, check_goal_progress reports is_active = False *)
(* and actual_value = None and nothing else (no is_met), whatever entries  *)
(* the habit has; on every other date it reports is_active = True.         *)
C13_InactiveReportsNothing ==
    Checked =>
        /\ last.raised = "none"
        /\ IF ActiveOn(CheckedGoal, last.date)
           THEN last.ret.is_active = TRUE
           ELSE last.ret = [is_active |-> FALSE, actual_value |-> None]

(* A goal checked after its end_date on a day its habit has an entry *)
C13_Witness_AfterEndWithEntry ==
    /\ Checked
    /\ CheckedGoal.end_date # None
    /\ ~IsoLE(isoformat(last.date), CheckedGoal.end_date)
    /\ HasEntry(CheckedGoal.habit_id, last.date)
    /\ last.ret = [is_active |-> FALSE, actual_value |-> None]

(* The day of the week of a date text, Sunday 0 .. Saturday 6, by the      *)
(* month-offset rule of the Gregorian calendar                             *)
IsoDayOfWeek(ymd) ==
    LET offsets == <<0, 3, 2, 5, 0, 3, 5, 1, 4, 6, 2, 4>>
        y == IF ymd[2] < 3 THEN ymd[1] - 1 ELSE ymd[1]
    IN (y + (y \div 4) - (y \div 100) + (y \div 400) + offsets[ymd[2]] + ymd[3]) % 7

(* The Monday of the week of day d *)
MondayOf(d) == CHOOSE m \in (d - 6)..d : IsoDayOfWeek(isoformat(m)) = 1

(* The rows of a habit dated in the calendar month of day d *)
RowsOfMonth(habit_id, d) ==
    {r \in store : /\ r.habit_id = habit_id
                   /\ r.date[1] = isoformat(d)[1]
                   /\ r.date[2] = isoformat(d)[2]}

(* The rows of the period a goal is evaluated over on day d *)
PeriodRows(row, d) ==
    IF row.period = "daily" THEN RowsIn(row.habit_id, d, d)
    ELSE IF row.period = "weekly" THEN RowsIn(row.habit_id, MondayOf(d), MondayOf(d) + 6)
    ELSE RowsOfMonth(row.habit_id, d)

(* The comparator of a goal applied to (actual, target) *)
Met(row, actual) ==
    CASE row.comparison = ">=" -> actual >= row.target_value
      [] row.comparison = "<=" -> actual <= row.target_value
      [] row.comparison = "==" -> actual = row.target_value

CheckedActive == Checked /\ ActiveOn(CheckedGoal, last.date)

(* C14: for an active goal check_goal_progress reports actual_value = None *)
(* (and no is_met) if and only if the habit has no entry in the evaluated  *)
(* period; with at least one entry and a sum of zero it reports            *)
(* actual_value = 0 with target_value, comparison and is_met computed      *)
(* from 0.                                                                 *)
C14_NoDataIsNotZero ==
    CheckedActive =>
        LET rows == PeriodRows(CheckedGoal, last.date)
        IN /\ (last.ret.actual_value = None) <=> (rows = {})
           /\ rows = {} => last.ret = [is_active |-> TRUE, actual_value |-> None]
           /\ (rows # {} /\ SumRows(rows) = 0) =>
                  last.ret = [is_active |-> TRUE, actual_value |-> <<0>>,
                              is_met |-> Met(CheckedGoal, 0),
                              target_value |-> CheckedGoal.target_value,
                              comparison |-> CheckedGoal.comparison]

(* An active goal whose period holds an entry and sums to zero *)
C14_Witness_EntriesSummingToZero ==
    /\ CheckedActive
    /\ PeriodRows(CheckedGoal, last.date) # {}
    /\ SumRows(PeriodRows(CheckedGoal, last.date)) = 0
    /\ last.ret.actual_value = <<0>>

(* C15: for an active daily goal checked on a date with an entry of value  *)
(* v for the goal's habit, actual_value = v, whatever is logged on other   *)
(* dates, and is_met is v >= target for ">=", v <= target for "<=" and     *)
(* v = target, exactly, for "==".                                          *)
C15_DailyValueAndComparison ==
    (CheckedActive /\ CheckedGoal.period = "daily"
        /\ HasEntry(CheckedGoal.habit_id, last.date)) =>
        LET v == ValueOn(CheckedGoal.habit_id, isoformat(last.date))
        IN /\ last.ret.actual_value = <<v>>
           /\ last.ret.is_met = Met(CheckedGoal, v)

(* A daily "==" goal checked on a day whose value is above the target,     *)
(* another day being logged too                                            *)
C15_Witness_AboveTargetNotEqual ==
    /\ CheckedActive
    /\ CheckedGoal.period = "daily"
    /\ CheckedGoal.comparison = "=="
    /\ HasEntry(CheckedGoal.habit_id, last.date)
    /\ ValueOn(CheckedGoal.habit_id, isoformat(last.date)) > CheckedGoal.target_value
    /\ \E r \in store : r.habit_id = CheckedGoal.habit_id /\ r.date # isoformat(last.date)
    /\ last.ret.is_met = FALSE

(* C16: for an active weekly goal actual_value is the sum of the habit's   *)
(* entries dated from the Monday to the Sunday of the check date's week,   *)
(* across month and year ends and whether or not those days lie in the     *)
(* goal's own range; every other date of that week on which the goal is    *)
(* active reports the same actual_value.                                   *)
C16_WeeklySumMondayToSunday ==
    (CheckedActive /\ CheckedGoal.period = "weekly") =>
        LET monday == MondayOf(last.date)
            rows == RowsIn(CheckedGoal.habit_id, monday, monday + 6)
        IN /\ last.ret.actual_value = IF rows = {} THEN None ELSE <<SumRows(rows)>>
           /\ \A d \in (monday..(monday + 6)) \cap ProgressDays :
                  ActiveOn(CheckedGoal, d) =>
                      check_goal_progress(goals, store, last.goal.id, d).ret.actual_value
                          = last.ret.actual_value

(* A weekly goal checked in a week that crosses a month end, counting an   *)
(* entry of the other month dated before the goal's start_date             *)
C16_Witness_WeekAcrossMonthAndStart ==
    /\ CheckedActive
    /\ CheckedGoal.period = "weekly"
    /\ \E r \in RowsIn(CheckedGoal.habit_id, MondayOf(last.date), MondayOf(last.date) + 6) :
           /\ r.date[2] # isoformat(last.date)[2]
           /\ ~IsoLE(CheckedGoal.start_date, r.date)
           /\ r.value > 0
           /\ last.ret.actual_value # None
           /\ last.ret.actual_value[1] >= r.value

(* C17: for an active monthly goal actual_value is the sum of the habit's  *)
(* entries dated in the check date's calendar month, first to last day,    *)
(* for months of 28, 29, 30 and 31 days and for December, whose period     *)
(* ends on December 31st; entries of the adjacent months do not count.     *)
C17_MonthlySumFirstToLast ==
    (CheckedActive /\ CheckedGoal.period = "monthly") =>
        LET rows == RowsOfMonth(CheckedGoal.habit_id, last.date)
        IN last.ret.actual_value = IF rows = {} THEN None ELSE <<SumRows(rows)>>

(* A monthly goal checked in December, the habit being logged on December  *)
(* 31st and on the next January 1st                                        *)
C17_Witness_DecemberAndNewYear ==
    /\ CheckedActive
    /\ CheckedGoal.period = "monthly"
    /\ isoformat(last.date)[2] = 12
    /\ \E r \in store : /\ r.habit_id = CheckedGoal.habit_id
                        /\ r.date = <<isoformat(last.date)[1], 12, 31>>
                        /\ r.value > 0
                        /\ last.ret.actual_value = <<r.value>>
    /\ \E r \in store : /\ r.habit_id = CheckedGoal.habit_id
                        /\ r.date = <<isoformat(last.date)[1] + 1, 1, 1>>

----------------------------------------------------------------------------
(* Properties of the automatic sync *)

(* The habits of the catalog a sync has to record: flagged automatic,      *)
(* configured for a registered provider, the provider returning a value    *)
SyncRecords(providers, fetch) ==
    {h \in CatalogIds :
        \E i \in 1..Len(HabitDefinitions) :
            /\ HabitDefinitions[i].id = h
            /\ HabitDefinitions[i].source = "automatic"
            /\ "provider" \in DOMAIN HabitDefinitions[i].provider_config
            /\ \E p \in 1..Len(providers) :
                   providers[p] = HabitDefinitions[i].provider_config["provider"]
            /\ h \in DOMAIN fetch
            /\ fetch[h].kind = "value"}

(* The rows of date d after the step hold the fetched value, as automatic, *)
(* for the habits of `synced`, and are the rows of before for the others   *)
SyncedRows(d, synced, fetch) ==
    \A h \in CatalogIds :
        LET after == {r \in store' : r.habit_id = h /\ r.date = isoformat(d)}
        IN IF h \in synced
           THEN /\ Cardinality(after) = 1
                /\ \A r \in after : r.value = fetch[h].value /\ r.source = "automatic"
           ELSE after = RowsOf(h, d)

NoFetchRaises(fetch) == \A h \in DOMAIN fetch : fetch[h].kind # "raise"

(* C21: a sync of a date whose provider calls all return records the       *)
(* fetched value, with source automatic, for exactly the automatic habits  *)
(* whose configured provider is registered and returned a value; manual    *)
(* habits, habits without a matching provider and habits whose provider    *)
(* returned None keep the entry they had or none; the rows of other dates  *)
(* stay, and the log is saved once, also when nothing was fetched.         *)
C21_SyncRecordsFetchedValues ==
    [][last'.op = "sync_automatic_habits" =>
          \A fetch \in [FetchedHabits(data_providers) -> FetchOutcomes] :
              (NoFetchRaises(fetch) /\ SyncAutomaticHabits(last'.date, fetch)) =>
                  /\ last'.raised = "none"
                  /\ SyncedRows(last'.date, SyncRecords(data_providers, fetch), fetch)
                  /\ {r \in store' : r.date # isoformat(last'.date)}
                         = {r \in store : r.date # isoformat(last'.date)}
                  /\ last'.log_saves = 1]_vars

(* A sync that recorded an automatic habit next to a manual entry of the   *)
(* same date, a habit of an unregistered provider staying without entry    *)
C21_Witness_AutomaticNextToManual ==
    /\ Wrote("sync_automatic_habits")
    /\ \E r \in store : r.date = isoformat(last.date) /\ r.source = "automatic"
    /\ \E r \in store : r.date = isoformat(last.date) /\ r.source = "manual"
    /\ RowsOf("github_contributions", last.date) = {}
    /\ last.log_saves = 1

(* C22: a provider call that raises during a sync counts as no data for    *)
(* that habit only: the sync returns, the habits whose provider returned a *)
(* value are recorded and the log is saved.                                *)
C22_ProviderFailureSkipsOneHabit ==
    [][last'.op = "sync_automatic_habits" =>
          \A fetch \in [FetchedHabits(data_providers) -> FetchOutcomes] :
              (~NoFetchRaises(fetch) /\ SyncAutomaticHabits(last'.date, fetch)) =>
                  /\ last'.raised = "none"
                  /\ SyncedRows(last'.date, SyncRecords(data_providers, fetch), fetch)
                  /\ last'.log_saves = 1]_vars

----------------------------------------------------------------------------
(* Properties of the DailyLog *)

(* Every entry of the log is dated as the log and no habit has two entries *)
LogWellFormed(log) ==
    /\ \A e \in log.entries : e.date = log.date
    /\ \A e1 \in log.entries : \A e2 \in log.entries :
           e1.habit_id = e2.habit_id => e1 = e2

(* C23: every DailyLog the services load from the Entry Store, change in   *)
(* record_habit or sync_automatic_habits, or return holds only entries     *)
(* dated as the log, one per habit id; add_or_update_entry with an entry   *)
(* of another date raises and leaves the entries of the log as they were.  *)
C23_LogHoldsOnlyItsOwnDate ==
    /\ last.op \in {"record_habit", "sync_automatic_habits", "add_or_update_entry"} =>
           LogWellFormed([date |-> last.date, entries |-> last.loaded])
    /\ (Wrote("record_habit") \/ Wrote("sync_automatic_habits")) =>
           last.ret.date = last.date /\ LogWellFormed(last.ret)
    /\ last.op = "get_by_date_range" =>
           \A i \in 1..Len(last.ret) : LogWellFormed(last.ret[i])
    /\ last.op = "add_or_update_entry" =>
           /\ LogWellFormed(last.ret)
           /\ IF last.end # last.date
              THEN last.raised # "none" /\ last.ret.entries = last.loaded
              ELSE last.raised = "none"
                   /\ \E e \in last.ret.entries :
                          e.habit_id = last.habit_id /\ e.value = last.value

(* add_or_update_entry refusing an entry of another date on a log that     *)
(* holds entries                                                           *)
C23_Witness_OtherDateRefused ==
    /\ last.op = "add_or_update_entry"
    /\ last.end # last.date
    /\ last.loaded # {}
    /\ last.raised = "ValueError"
    /\ last.ret.entries = last.loaded

----------------------------------------------------------------------------
(* Properties of the goal lifecycle *)

(* The goal id is in no result of a lookup of the Goal Store *)
NowhereFound(rows, goal_id) ==
    /\ goal_get_by_id(rows, goal_id) = {}
    /\ \A g \in goal_get_all(rows) : g.id # goal_id
    /\ \A h \in CatalogIds : \A g \in goal_get_by_habit(rows, h) : g.id # goal_id
    /\ \A h \in CatalogIds : \A d \in Dates :
           \A g \in goal_get_active_goals(rows, h, d) : g.id # goal_id

(* C24: delete_goal, update_goal and check_goal_progress on an id that is  *)
(* not stored raise GoalNotFoundError and change neither store; after a    *)
(* delete_goal that returned, no lookup returns the goal, the other goals  *)
(* are as before and create_goal accepts the id again; no create, update   *)
(* or delete of a goal changes the Entry Store.                            *)
C24_GoalLifecycleFrame ==
    [][/\ (last'.op \in {"delete_goal", "update_goal", "check_goal_progress"}
              /\ GoalRows(goals, last'.goal.id) = {}) =>
                 last'.raised = "GoalNotFoundError" /\ goals' = goals /\ store' = store
       /\ (last'.op = "delete_goal" /\ GoalRows(goals, last'.goal.id) # {}) =>
              /\ last'.raised = "none"
              /\ NowhereFound(goals', last'.goal.id)
              /\ goals' = goals \ GoalRows(goals, last'.goal.id)
              /\ \A goal \in LifecycleCreates :
                     (goal.id = last'.goal.id /\ goal.habit_id \in CatalogIds) =>
                         create_goal(goals', goal).raised = "none"
       /\ last'.op \in {"create_goal", "update_goal", "delete_goal"} => store' = store
      ]_vars

(* A goal created again under an id that an earlier delete_goal freed      *)
(* cannot be told from a first creation, so the witness is the deletion:   *)
(* a stored goal deleted next to another goal and a non-empty Entry Store  *)
C24_Witness_DeletedNextToOthers ==
    /\ Wrote("delete_goal")
    /\ last.goal.found # {}
    /\ GoalRows(goals, last.goal.id) = {}
    /\ goals # {}
    /\ store # {}

----------------------------------------------------------------------------
(* Properties of the daily summary *)

(* The habit ids with a row on day d *)
LoggedOn(d) == {r.habit_id : r \in {x \in store : x.date = isoformat(d)}}

(* C25: get_daily_summary(date) returns total_habits = the number of       *)
(* habits of the catalog, logged_habit_ids = the habit ids with an entry   *)
(* on the date, each once, and logged_habits = the length of that list;    *)
(* 0 and the empty list for a date without entries; it returns also when   *)
(* the catalog is empty.                                                   *)
C25_DailySummaryCounts ==
    last.op = "get_daily_summary" =>
        LET ids == last.ret.logged_habit_ids
        IN /\ last.raised = "none"
           /\ last.ret.total_habits = last.value
           /\ last.value \in {0, Cardinality(CatalogIds)}
           /\ {ids[i] : i \in 1..Len(ids)} = LoggedOn(last.date)
           /\ Len(ids) = Cardinality(LoggedOn(last.date))
           /\ last.ret.logged_habits = Len(ids)
           /\ LoggedOn(last.date) = {} => ids = <<>> /\ last.ret.logged_habits = 0

(* The summary of a date with two habits logged, another date holding      *)
(* entries too, asked with the empty catalog                               *)
C25_Witness_TwoLoggedEmptyCatalog ==
    /\ last.op = "get_daily_summary"
    /\ last.value = 0
    /\ last.ret.logged_habits = Cardinality(LoggedOn(last.date))
    /\ Cardinality(LoggedOn(last.date)) > 1
    /\ \E r \in store : r.date # isoformat(last.date)

----------------------------------------------------------------------------
(* Properties of the Garmin provider *)

FetchedConfig == last.goal.args.provider_config
FetchedClient == last.goal.args.client

(* The seconds of the activities a request counts *)
RECURSIVE CountedSeconds(_, _)
CountedSeconds(activities, config) ==
    IF activities = <<>> THEN 0
    ELSE CountedSeconds(Tail(activities), config)
         + (IF /\ "activity_type" \in DOMAIN config
               /\ Head(activities).typeKey # <<config["activity_type"]>>
            THEN 0
            ELSE IF Head(activities).duration = None THEN 0
            ELSE Head(activities).duration[1])

(* C26: fetch_data of the Garmin provider never raises; it returns None    *)
(* for a habit without provider_config, without a "metric" key or with an  *)
(* unknown metric; 0, not None, when the client call for steps, heart rate *)
(* or exercise throws; for exercise the summed durations of the day's      *)
(* activities in minutes, only those of the configured activity_type when  *)
(* one is given.                                                           *)
C26_GarminFetchNeverRaises ==
    last.op = "fetch_data" =>
        LET metric == IF "metric" \in DOMAIN FetchedConfig THEN FetchedConfig["metric"]
                      ELSE ""
        IN /\ last.raised = "none"
           /\ metric \notin GarminMetrics => last.ret = None
           /\ metric \in GarminMetrics => last.ret # None
           /\ (metric \in {"steps", "heart_rate"} /\ FetchedClient.summary.kind = "throws") =>
                  last.ret = <<0>>
           /\ (metric = "exercise" /\ FetchedClient.activities.kind = "throws") =>
                  last.ret[1].num = 0
           /\ (metric = "exercise" /\ FetchedClient.activities.kind = "returns") =>
                  last.ret[1].num * 60 =
                      CountedSeconds(FetchedClient.activities.value, FetchedConfig)
                          * last.ret[1].den

(* Exercise minutes of a running-only habit on a day with a run and a      *)
(* ride: the run alone counts                                              *)
C26_Witness_RunningOnly ==
    /\ last.op = "fetch_data"
    /\ "activity_type" \in DOMAIN FetchedConfig
    /\ FetchedClient.activities.kind = "returns"
    /\ \E i \in 1..Len(FetchedClient.activities.value) :
           /\ FetchedClient.activities.value[i].typeKey = <<"cycling">>
           /\ FetchedClient.activities.value[i].duration # None
    /\ last.ret = <<Div(1800, 60)>>

----------------------------------------------------------------------------
(* Properties of the longest streak *)

(* The runs of consecutive logged days of a habit within [start, end]:     *)
(* <<a, b>> with every day of a..b logged and neither the day before a nor *)
(* the day after b both in the range and logged                            *)
RunsIn(habit_id, start, end) ==
    {ab \in (start..end) \X (start..end) :
        /\ ab[1] <= ab[2]
        /\ \A d \in ab[1]..ab[2] : HasEntry(habit_id, d)
        /\ ab[1] = start \/ ~HasEntry(habit_id, ab[1] - 1)
        /\ ab[2] = end \/ ~HasEntry(habit_id, ab[2] + 1)}

RunLength(ab) == (ab[2] - ab[1]) + 1

(* C27: get_longest_streak returns as length the greatest number of        *)
(* consecutive logged days within [start, end] and as start_date and       *)
(* end_date the first and last day of the earliest run of that length, so  *)
(* that every day between them is logged and end_date - start_date + 1 is  *)
(* the length; a later run of the same length does not replace it; with no *)
(* entry in the range it returns length 0 and null dates.                  *)
C27_LongestStreakFirstMaximalRun ==
    Asked("get_longest_streak") =>
        LET runs == RunsIn(last.habit_id, last.date, last.end)
        IN /\ last.raised = "none"
           /\ runs = {} =>
                  last.ret = [length |-> 0, start_date |-> None, end_date |-> None]
           /\ runs # {} =>
                  \E first \in runs :
                      /\ \A other \in runs : RunLength(other) <= RunLength(first)
                      /\ \A other \in runs :
                             RunLength(other) = RunLength(first) => first[1] <= other[1]
                      /\ last.ret = [length |-> RunLength(first),
                                     start_date |-> isoformat(first[1]),
                                     end_date |-> isoformat(first[2])]

(* Two runs of the same, greatest length in the range: the earlier one is  *)
(* returned                                                                *)
C27_Witness_TieFirstRunWins ==
    /\ Asked("get_longest_streak")
    /\ \E r1 \in RunsIn(last.habit_id, last.date, last.end) :
       \E r2 \in RunsIn(last.habit_id, last.date, last.end) :
           /\ r1[1] < r2[1]
           /\ RunLength(r1) = RunLength(r2)
           /\ last.ret.length = RunLength(r1)
           /\ last.ret.start_date = isoformat(r1[1])
           /\ last.ret.end_date = isoformat(r1[2])

----------------------------------------------------------------------------
(* Properties of concurrent recording *)

(* C28: when calls of record_habit and sync_automatic_habits on a date     *)
(* interleave at their load and save of the log, the save of a call leaves *)
(* for each habit it recorded its own entry in the Entry Store, and for    *)
(* each habit it did not record the stored entry as it was just before the *)
(* save: the entry of (date, habit) is the one of the last call that       *)
(* recorded the habit, never an older one a call had loaded.               *)
C28_LastWriteWinsPerHabit ==
    [][\A w \in Workers :
          (running[w] # Idle /\ running'[w] = Idle) =>
              \A h \in CatalogIds :
                  LET after == {r \in store' : /\ r.habit_id = h
                                               /\ r.date = isoformat(running[w].date)}
                  IN IF h \in running[w].recorded
                     THEN \E e \in running[w].log.entries :
                              e.habit_id = h /\ after = {entry_to_row(e)}
                     ELSE after = RowsOf(h, running[w].date)]_vars

----------------------------------------------------------------------------
(* Properties of the goal routes *)

(* C29: through the goal routes of the app, an update, a delete or a       *)
(* progress check of a goal id that is not stored is answered with 404,    *)
(* and the creation of a goal for a habit outside the catalog or under a   *)
(* goal id already stored with a 4xx status: no error of the Goal Manager  *)
(* leaves a route unhandled.                                               *)
C29_GoalRoutesAnswerClientErrors ==
    /\ (last.op \in {"PUT goal", "DELETE goal", "GET progress"} /\ last.goal.found = {}) =>
           last.value = 404
    /\ (last.op = "POST goals"
           /\ (last.goal.args.habit_id \notin CatalogIds \/ last.goal.found # {})) =>
           last.value \in 400..499

----------------------------------------------------------------------------
(* Properties of the store against the catalog *)

(* C30: in every state reached from the empty Entry Store by record_habit  *)
(* and sync_automatic_habits against the fixed catalog, every stored       *)
(* entry's habit id is a habit of the catalog, and for every date every    *)
(* daily summary has logged_habits <= total_habits and a completion        *)
(* percentage between 0 and 100.                                           *)
C30_StoredHabitsBelongToCatalog ==
    /\ \A r \in store : r.habit_id \in CatalogIds
    /\ \A d \in Dates : \A done \in get_daily_summary(habit_get_all, store, d) :
           /\ done.ret.logged_habits <= done.ret.total_habits
           /\ completion_percentage(done.ret) \in 0..1000

(* Both kinds of operation have stored entries on one date and a          *)
(* record_habit for a habit outside the catalog was then refused: the      *)
(* summary of that date counts the two stored habits, a part of the        *)
(* catalog                                                                 *)
C30_Witness_TwoLoggedAfterRefusal ==
    /\ last.op = "record_habit" /\ last.raised = "ValueError"
    /\ last.habit_id \notin CatalogIds
    /\ \E r \in store : r.date = isoformat(last.date) /\ r.source = "manual"
    /\ \E r \in store : r.date = isoformat(last.date) /\ r.source # "manual"
    /\ \E done \in get_daily_summary(habit_get_all, store, last.date) :
           /\ done.ret.logged_habits > 1
           /\ done.ret.logged_habits < done.ret.total_habits
           /\ completion_percentage(done.ret) \in 1..999

====
